---- MODULE Spec2Model ----
(***************************************************************************)
(* Model of the StudyMate retrieval-augmented generation pipeline:         *)
(*   - Chunker            backend/app/ingestion/chunker.py                 *)
(*   - prompt assemblers  backend/app/llm/prompts.py,                      *)
(*                        milestone3/src/prompt_builder.py                 *)
(*   - FAISSIndex         backend/app/retrieval/index.py                   *)
(*   - the module-level index instances of the ingestion, search and chat  *)
(*     routers            backend/app/api/{ingestion,search,chat}.py       *)
(*   - WatsonxClient      backend/app/llm/watsonx_client.py                *)
(*   - embedding providers backend/app/retrieval/embeddings.py            *)
(*   - chat endpoints     backend/app/api/chat.py                          *)
(*                                                                         *)
(* Python strings are sequences of one-character strings, so that          *)
(* str.split, str.strip and str.join are computed and not assumed.         *)
(***************************************************************************)
EXTENDS Integers, Sequences, FiniteSets, TLC

VARIABLES
    \* ---- Chunker ----
    chunker,        \* the Chunker object: chunk_size, chunk_overlap, stride
    text,           \* argument text of chunk_text
    filename,       \* argument filename of chunk_text
    page_texts,     \* argument page_texts of chunk_text (<<>> is None / [])
    chunk_result,   \* outcome of chunk_text: [status, chunks]; status "pending" before the call
    \* ---- prompt assembler ----
    retrieved,        \* argument chunks of build_rag_prompt / build_prompt
    question,         \* argument question
    system_prompt,    \* argument system_prompt / system_template (<<>> is None or "")
    max_total_tokens, \* argument max_total_tokens
    safety_margin,    \* argument safety_margin
    prompt_result,    \* outcome: [status, fn, prompt_text, used]
    \* ---- vector index ----
    faiss_build,      \* whether faiss.IndexHNSWFlat can be constructed: "hnsw" or "flat"
    faiss,            \* the FAISSIndex objects of the process: name -> [index, metadata]
    disk,             \* the files at index_path and metadata_path
    last_op,          \* the last operation on the index and what it returned
    assigned,         \* history: per object, the first vector it put at each position
    \* ---- database ----
    db,               \* the committed rows: [documents, chunks]
    \* ---- generation client ----
    max_retries,      \* WatsonxClient.max_retries
    backend,          \* what model.generate_text does at its 1st, 2nd, ... call
    gen_result,       \* outcome of generate_from_prompt: [status, fn, events, result]
    \* ---- embeddings ----
    embeddings,       \* the provider object: [kind, batch_size]
    texts,            \* argument texts of embed_texts
    encode_outcomes,  \* what SentenceTransformer.encode does at its 1st, 2nd, ... call
    embed_result,     \* outcome of embed_texts: [status, error, value, events]
    \* ---- chat ----
    messages,         \* the committed Message rows
    citations,        \* the committed Citation rows
    chat_result       \* outcome of the last chat / chat_stream request

chunkerVars == <<chunker, text, filename, page_texts, chunk_result>>
promptVars == <<retrieved, question, system_prompt, max_total_tokens,
                safety_margin, prompt_result>>
indexVars == <<faiss_build, faiss, disk, last_op, assigned>>
dbVars == <<db>>
clientVars == <<max_retries, backend, gen_result>>
embedVars == <<embeddings, texts, encode_outcomes, embed_result>>
chatVars == <<messages, citations, chat_result>>

\* ------------------------------------------------------------------ bounds
MaxTextLen == 7
MaxChunkSize == 3
MaxRetrieved == 3
MaxVectors == 3
MaxUpsert == 2
MaxK == 3
MaxRows == 2
MaxRetries == 3
MaxQuestionLen == 2
MaxTexts == 4
MaxBatchSize == 3
MaxRequests == 1
MaxChunkWords == 1700
MaxValidatedLen == 5

\* ------------------------------------------------------------ Python str
Whitespace == {" ", "\n"}

Min(a, b) == IF a < b THEN a ELSE b
Max(a, b) == IF a > b THEN a ELSE b

\* All sequences over S of length 0..n
SeqsUpTo(S, n) == UNION {[1..m -> S] : m \in 0..n}

RECURSIVE Split(_)
\* str.split(): the maximal runs of non-whitespace characters, in order.
\* Computed by halves: the words of the left half, then those of the right
\* half, the two words that meet at the cut being one word.
Split(s) ==
    IF Len(s) = 0 THEN <<>>
    ELSE IF Len(s) = 1 THEN (IF s[1] \in Whitespace THEN <<>> ELSE <<s>>)
    ELSE LET m == Len(s) \div 2
             L == Split(SubSeq(s, 1, m))
             R == Split(SubSeq(s, m + 1, Len(s)))
         IN IF s[m] \notin Whitespace /\ s[m + 1] \notin Whitespace
            THEN SubSeq(L, 1, Len(L) - 1) \o <<L[Len(L)] \o R[1]>> \o Tail(R)
            ELSE L \o R

RECURSIVE LStrip(_)
LStrip(s) ==
    IF s # <<>> /\ Head(s) \in Whitespace THEN LStrip(Tail(s)) ELSE s

RECURSIVE RStrip(_)
RStrip(s) ==
    IF s # <<>> /\ s[Len(s)] \in Whitespace
    THEN RStrip(SubSeq(s, 1, Len(s) - 1))
    ELSE s

\* str.strip()
Strip(s) == RStrip(LStrip(s))

RECURSIVE Join(_, _)
\* sep.join(parts)
Join(sep, parts) ==
    IF parts = <<>> THEN <<>>
    ELSE IF Len(parts) = 1 THEN parts[1]
    ELSE parts[1] \o sep \o Join(sep, Tail(parts))

\* math.ceil(a / b) for b > 0
CeilDiv(a, b) == -((-a) \div b)

\* --------------------------------------------------------------- Chunker
\* the overlap left out of the stride
NewChunkerNoOverlap(chunk_size, chunk_overlap) ==
    [chunk_size |-> chunk_size,
     chunk_overlap |-> chunk_overlap,
     stride |-> chunk_size]

\* Chunker.__init__
NewChunker(chunk_size, chunk_overlap) ==
    [chunk_size |-> chunk_size,
     chunk_overlap |-> chunk_overlap,
     stride |-> chunk_size - chunk_overlap]

\* floor division where the code takes the ceiling
CalculateNumChunksFloor(self, num_words) ==
    IF num_words < self.chunk_size
    THEN 1
    ELSE ((num_words - self.chunk_size) \div self.stride) + 1

\* Chunker._calculate_num_chunks (called with stride > 0)
CalculateNumChunks(self, num_words) ==
    IF num_words < self.chunk_size
    THEN 1
    ELSE CeilDiv(num_words - self.chunk_size, self.stride) + 1

RECURSIVE SumLens(_)
SumLens(counts) == IF counts = <<>> THEN 0 ELSE Head(counts) + SumLens(Tail(counts))

RECURSIVE FindPage(_, _, _, _)
\* the for/else loops of _estimate_page_range: the first page whose cumulative
\* word count exceeds pos, or the last page when none does
FindPage(counts, i, current_word_count, pos) ==
    IF i > Len(counts) THEN Len(counts)
    ELSE IF current_word_count + counts[i] > pos THEN i
    ELSE FindPage(counts, i + 1, current_word_count + counts[i], pos)

\* Chunker._estimate_page_range
EstimatePageRange(start_word, end_word, total_words, pts) ==
    IF pts = <<>> THEN <<1, 1>>
    ELSE LET page_word_counts == [p \in 1..Len(pts) |-> Len(Split(pts[p]))]
         IN IF SumLens(page_word_counts) = 0 THEN <<1, 1>>
            ELSE <<FindPage(page_word_counts, 1, 0, start_word),
                   FindPage(page_word_counts, 1, 0, end_word)>>

RECURSIVE ChunkLoopNoBreak(_, _, _, _, _, _, _)
\* the loop without its "if end_word >= len(words): break"
ChunkLoopNoBreak(self, words, fname, pts, i, chunk_index, chunks) ==
    IF i >= Len(words) THEN chunks
    ELSE LET start_word == i
             end_word == Min(i + self.chunk_size, Len(words))
             chunk_words == SubSeq(words, start_word + 1, end_word)
             pages == EstimatePageRange(start_word, end_word, Len(words), pts)
             chunk == [chunk_index |-> chunk_index,
                       start_word |-> start_word,
                       end_word |-> end_word,
                       page_start |-> pages[1],
                       page_end |-> pages[2],
                       text |-> Join(<<" ">>, chunk_words),
                       source_filename |-> fname,
                       word_count |-> Len(chunk_words)]
         IN ChunkLoopNoBreak(self, words, fname, pts, i + self.stride,
                             chunk_index + 1, Append(chunks, chunk))

RECURSIVE ChunkLoop(_, _, _, _, _, _, _)
\* the for loop of chunk_text over range(0, len(words), stride), stride > 0
ChunkLoop(self, words, fname, pts, i, chunk_index, chunks) ==
    IF i >= Len(words) THEN chunks
    ELSE LET start_word == i
             end_word == Min(i + self.chunk_size, Len(words))
             chunk_words == SubSeq(words, start_word + 1, end_word)
             pages == EstimatePageRange(start_word, end_word, Len(words), pts)
             chunk == [chunk_index |-> chunk_index,
                       start_word |-> start_word,
                       end_word |-> end_word,
                       page_start |-> pages[1],
                       page_end |-> pages[2],
                       text |-> Join(<<" ">>, chunk_words),
                       source_filename |-> fname,
                       word_count |-> Len(chunk_words)]
             appended == Append(chunks, chunk)
         IN IF end_word >= Len(words)
            THEN appended
            ELSE ChunkLoop(self, words, fname, pts, i + self.stride,
                           chunk_index + 1, appended)

\* Chunker.chunk_text: [status, chunks]; with stride 0 the division in
\* _calculate_num_chunks raises ZeroDivisionError before the loop is reached;
\* with a negative stride range() is empty
ChunkText(self, txt, fname, pts) ==
    IF Strip(txt) = <<>> THEN [status |-> "ok", chunks |-> <<>>]
    ELSE LET words == Split(txt)
         IN IF Len(words) < self.chunk_size
            THEN [status |-> "ok",
                  chunks |-> << [chunk_index |-> 0,
                                 start_word |-> 0,
                                 end_word |-> Len(words),
                                 page_start |-> 1,
                                 page_end |-> 1,
                                 text |-> Strip(txt),
                                 source_filename |-> fname,
                                 word_count |-> Len(words)] >>]
            ELSE IF self.stride = 0
                 THEN [status |-> "ZeroDivisionError", chunks |-> <<>>]
                 ELSE IF self.stride < 0
                      THEN [status |-> "ok", chunks |-> <<>>]
                      ELSE [status |-> "ok",
                            chunks |-> ChunkLoop(self, words, fname, pts, 0, 0, <<>>)]

TextChars == {" ", "a", "b"}
FileNames == {<<"f">>}

\* page_texts as the extractor hands them over: absent, or the text cut in two
PageTextsOf(txt) ==
    {<<>>, <<SubSeq(txt, 1, Len(txt) \div 2), SubSeq(txt, Len(txt) \div 2 + 1, Len(txt))>>}

IdleChunker ==
    /\ chunker = NewChunker(1, 0)
    /\ text = <<>>
    /\ filename = <<>>
    /\ page_texts = <<>>
    /\ chunk_result = [status |-> "idle", chunks |-> <<>>]

InitChunkerInputs ==
    /\ \E cs \in 1..MaxChunkSize, co \in 0..MaxChunkSize :
          chunker = NewChunker(cs, co)
    /\ text \in SeqsUpTo(TextChars, MaxTextLen)
    /\ filename \in FileNames
    /\ page_texts \in PageTextsOf(text)
    /\ chunk_result = [status |-> "pending", chunks |-> <<>>]

\* a call chunker.chunk_text(text, filename, page_texts)
CallChunkText ==
    /\ chunk_result.status = "pending"
    /\ chunk_result' = ChunkText(chunker, text, filename, page_texts)
    /\ UNCHANGED <<chunker, text, filename, page_texts>>
    /\ UNCHANGED <<promptVars, indexVars, dbVars, clientVars, embedVars, chatVars>>

\* words[-k:] for 0 <= k <= len(words): -0 is 0, so k = 0 takes every word
LastWords(words, k) ==
    IF k = 0 THEN words ELSE SubSeq(words, Len(words) - k + 1, Len(words))
\* words[:k]
FirstWords(words, k) == SubSeq(words, 1, Min(k, Len(words)))

RECURSIVE ValidateLoop(_, _, _)
\* for i in range(len(chunks) - 1) of validate_overlap, i counted from 1
ValidateLoop(self, chunks, i) ==
    IF i > Len(chunks) - 1 THEN TRUE
    ELSE LET current_words == Split(chunks[i].text)
             next_words == Split(chunks[i + 1].text)
         IN IF Len(current_words) < self.chunk_overlap
                \/ Len(next_words) < self.chunk_overlap
            THEN ValidateLoop(self, chunks, i + 1)
            ELSE IF LastWords(current_words, self.chunk_overlap)
                        # FirstWords(next_words, self.chunk_overlap)
                 THEN FALSE
                 ELSE ValidateLoop(self, chunks, i + 1)

\* Chunker.validate_overlap
ValidateOverlap(self, chunks) ==
    IF Len(chunks) < 2 THEN TRUE ELSE ValidateLoop(self, chunks, 1)

\* the chunkers and texts validate_overlap is exercised on
InitValidateInputs ==
    /\ \E cs \in 1..MaxChunkSize, co \in 0..MaxChunkSize :
          chunker = NewChunker(cs, co)
    /\ text \in SeqsUpTo(TextChars, MaxValidatedLen)
    /\ filename \in FileNames
    /\ page_texts = <<>>
    /\ chunk_result = [status |-> "pending", chunks |-> <<>>]

\* a call chunker.validate_overlap(chunks) on the chunks chunk_text returned
CallValidateOverlap ==
    /\ chunk_result.status = "ok"
    /\ chunk_result' = [status |-> "validated", chunks |-> chunk_result.chunks,
                        valid |-> ValidateOverlap(chunker, chunk_result.chunks)]
    /\ UNCHANGED <<chunker, text, filename, page_texts>>
    /\ UNCHANGED <<promptVars, indexVars, dbVars, clientVars, embedVars, chatVars>>

\* ------------------------------------------------------ prompt assembler
\* U+2013 EN DASH, which the module's character set cannot spell
EnDash == "<U+2013>"

RAG_SYSTEM_PROMPT ==
    <<"You", " ", "are", " ", "a", " ", "helpful", " ", "academic", " ",
      "assistant.", " ", "Your", " ", "task", " ", "is", " ", "to", " ",
      "answer", " ", "questions", " ", "based", " ", "ONLY", " ", "on", " ",
      "the", " ", "provided", " ", "context", " ", "from", " ", "uploaded",
      " ", "documents.", "\n", "\n", "IMPORTANT", " ", "RULES:", "\n", "1.",
      " ", "Answer", " ", "ONLY", " ", "using", " ", "information", " ",
      "from", " ", "the", " ", "provided", " ", "context", "\n", "2.", " ",
      "If", " ", "the", " ", "answer", " ", "cannot", " ", "be", " ",
      "found", " ", "in", " ", "the", " ", "context,", " ", "say", " ",
      "\"I", " ", "don't", " ", "have", " ", "enough", " ", "information",
      " ", "to", " ", "answer", " ", "this", " ", "question", " ", "based",
      " ", "on", " ", "the", " ", "provided", " ", "documents.\"", "\n",
      "3.", " ", "Do", " ", "not", " ", "make", " ", "up", " ", "or", " ",
      "infer", " ", "information", " ", "not", " ", "present", " ", "in",
      " ", "the", " ", "context", "\n", "4.", " ", "Always", " ", "cite",
      " ", "your", " ", "sources", " ", "using", " ", "the", " ", "format",
      " ", "[filename", " ", "p.x<U+2013>y]", " ", "where", " ", "x", " ",
      "and", " ", "y", " ", "are", " ", "page", " ", "numbers", "\n", "5.",
      " ", "Be", " ", "concise", " ", "but", " ", "thorough", " ", "in", " ",
      "your", " ", "answers", "\n", "6.", " ", "If", " ", "you", " ", "need",
      " ", "to", " ", "reference", " ", "multiple", " ", "sources,", " ",
      "cite", " ", "each", " ", "one", " ", "separately", "\n", "\n",
      "Context", " ", "will", " ", "be", " ", "provided", " ", "as", " ",
      "numbered", " ", "evidence", " ", "snippets", " ", "with", " ",
      "source", " ", "information.">>

DEFAULT_SYSTEM ==
    <<"You", " ", "are", " ", "a", " ", "helpful", " ", "assistant.", " ",
      "Answer", " ", "strictly", " ", "based", " ", "on", " ", "the", " ",
      "context", " ", "below.", " ", "If", " ", "the", " ", "answer", " ",
      "cannot", " ", "be", " ", "found", " ", "in", " ", "the", " ",
      "provided", " ", "context,", " ", "reply", " ", "only:", " ", "'I",
      " ", "don't", " ", "know'.", " ", "Do", " ", "not", " ",
      "hallucinate.">>

\* _estimate_tokens / estimate_tokens: max(1, len(text.split()))
EstimateTokens(s) == Max(1, Len(Split(s)))

\* the three digits d of format(x, ".3f") for a score held in thousandths
Digits3(n) ==
    ToString(n \div 100) \o ToString((n \div 10) % 10) \o ToString(n % 10)

\* f"{score:.3f}" for a score held in thousandths
FormatScore(score) ==
    LET a == IF score < 0 THEN -score ELSE score
    IN (IF score < 0 THEN "-" ELSE "")
           \o ToString(a \div 1000) \o "." \o Digits3(a % 1000)

\* dict.get(key, default)
GetOr(d, key, default) == IF key \in DOMAIN d THEN d[key] ELSE default

\* prompts.py: f"- [{idx}] ({filename} p.{page_start}<EN DASH>{page_end}, score={score:.3f})\n{text}\n"
RagEntry(idx, chunk) ==
    <<"-", " ", "[" \o ToString(idx) \o "]", " ", "(">>
        \o GetOr(chunk, "source_filename", <<"Unknown">>)
        \o <<" ", "p." \o ToString(chunk.page_start) \o EnDash
                       \o ToString(chunk.page_end) \o ",",
             " ", "score=" \o FormatScore(chunk.score) \o ")", "\n">>
        \o chunk.text \o <<"\n">>

\* prompt_builder.py: f"- [{idx}] ({source_file} p.{page}, score={score:.3f})\n{text}\n"
M3Entry(idx, ch) ==
    <<"-", " ", "[" \o ToString(idx) \o "]", " ", "(">>
        \o ch.source_file
        \o <<" ", "p." \o ToString(ch.page) \o ",",
             " ", "score=" \o FormatScore(ch.score) \o ")", "\n">>
        \o ch.text \o <<"\n">>

Entry(fn, idx, chunk) ==
    IF fn = "build_rag_prompt" THEN RagEntry(idx, chunk) ELSE M3Entry(idx, chunk)

RECURSIVE InsertTiesFirst(_, _)
\* insertion that puts a chunk ahead of the chunks of equal score
InsertTiesFirst(sorted, c) ==
    IF sorted = <<>> THEN <<c>>
    ELSE IF Head(sorted).score > c.score
         THEN <<Head(sorted)>> \o InsertTiesFirst(Tail(sorted), c)
         ELSE <<c>> \o sorted

RECURSIVE InsertDesc(_, _)
\* c goes behind every chunk whose score is at least its own
InsertDesc(sorted, c) ==
    IF sorted = <<>> THEN <<c>>
    ELSE IF Head(sorted).score >= c.score
         THEN <<Head(sorted)>> \o InsertDesc(Tail(sorted), c)
         ELSE <<c>> \o sorted

RECURSIVE SortedDesc(_, _)
\* sorted(chunks, key=score, reverse=True): stable, the chunks of equal score
\* stay in their input order
SortedDesc(chunks, acc) ==
    IF chunks = <<>> THEN acc
    ELSE SortedDesc(Tail(chunks), InsertDesc(acc, Head(chunks)))

RECURSIVE PackLoopContinue(_, _, _, _, _, _, _)
\* the loop skipping a chunk that does not fit and going on to the next
PackLoopContinue(fn, ranked, idx, budget, tokens_so_far, lines, used) ==
    IF idx > Len(ranked) THEN [lines |-> lines, used |-> used]
    ELSE LET chunk == ranked[idx]
             entry == Entry(fn, idx, chunk)
             need == EstimateTokens(entry)
         IN IF tokens_so_far + need > budget
            THEN PackLoopContinue(fn, ranked, idx + 1, budget, tokens_so_far,
                                  lines, used)
            ELSE PackLoopContinue(fn, ranked, idx + 1, budget, tokens_so_far + need,
                                  Append(lines, entry), Append(used, chunk))

RECURSIVE PackLoopUsedBeforeCheck(_, _, _, _, _, _, _)
\* the loop recording a chunk as used before the budget check
PackLoopUsedBeforeCheck(fn, ranked, idx, budget, tokens_so_far, lines, used) ==
    IF idx > Len(ranked) THEN [lines |-> lines, used |-> used]
    ELSE LET chunk == ranked[idx]
             entry == Entry(fn, idx, chunk)
             need == EstimateTokens(entry)
         IN IF tokens_so_far + need > budget
            THEN [lines |-> lines, used |-> Append(used, chunk)]
            ELSE PackLoopUsedBeforeCheck(fn, ranked, idx + 1, budget,
                                         tokens_so_far + need,
                                         Append(lines, entry), Append(used, chunk))

RECURSIVE PackLoop(_, _, _, _, _, _, _)
\* for idx, chunk in enumerate(ranked, start=1): ... break when over budget
PackLoop(fn, ranked, idx, budget, tokens_so_far, lines, used) ==
    IF idx > Len(ranked) THEN [lines |-> lines, used |-> used]
    ELSE LET chunk == ranked[idx]
             entry == Entry(fn, idx, chunk)
             need == EstimateTokens(entry)
         IN IF tokens_so_far + need > budget
            THEN [lines |-> lines, used |-> used]
            ELSE PackLoop(fn, ranked, idx + 1, budget, tokens_so_far + need,
                          Append(lines, entry), Append(used, chunk))

QuestionLabel == <<"Question:", " ">>

\* tokens reserved before any evidence:
\* tokens(system) + tokens("Question: ") + tokens(question) + 50
Reserve(system, q) ==
    EstimateTokens(system) + EstimateTokens(QuestionLabel) + EstimateTokens(q) + 50

\* the assembler without its branch for an empty chunk list
BuildWithNoPlaceholder(fn, default_system, chunks, q, sys, max_tokens, margin) ==
    LET system == IF sys = <<>> THEN default_system ELSE sys
        ranked == SortedDesc(chunks, <<>>)
        header == system \o <<"\n", "\n", "Context:">>
        budget == max_tokens - margin
        packed == PackLoop(fn, ranked, 1, budget, Reserve(system, q),
                           <<header>>, <<>>)
        lines == Append(packed.lines,
                        <<"\n">> \o QuestionLabel \o q \o <<"\n", "Answer:">>)
    IN [status |-> "ok", fn |-> fn,
        prompt_text |-> Join(<<"\n">>, lines),
        used |-> packed.used]

\* the body shared by build_rag_prompt and build_prompt, which differ in the
\* default system text and in the entry they render
BuildWith(fn, default_system, chunks, q, sys, max_tokens, margin) ==
    LET system == IF sys = <<>> THEN default_system ELSE sys
    IN IF chunks = <<>>
       THEN [status |-> "ok", fn |-> fn,
             prompt_text |-> system \o <<"\n", "\n", "Context:", "\n", "(none)", "\n", "\n">>
                                \o QuestionLabel \o q \o <<"\n", "Answer:">>,
             used |-> <<>>]
       ELSE LET ranked == SortedDesc(chunks, <<>>)
                header == system \o <<"\n", "\n", "Context:">>
                budget == max_tokens - margin
                packed == PackLoop(fn, ranked, 1, budget, Reserve(system, q),
                                   <<header>>, <<>>)
                lines == Append(packed.lines,
                                <<"\n">> \o QuestionLabel \o q \o <<"\n", "Answer:">>)
            IN [status |-> "ok", fn |-> fn,
                prompt_text |-> Join(<<"\n">>, lines),
                used |-> packed.used]

\* llm/prompts.py build_rag_prompt
BuildRagPrompt(chunks, q, sys, max_tokens, margin) ==
    BuildWith("build_rag_prompt", RAG_SYSTEM_PROMPT, chunks, q, sys, max_tokens, margin)

\* milestone3 prompt_builder.py build_prompt
BuildPrompt(chunks, q, sys, max_tokens, margin) ==
    BuildWith("build_prompt", DEFAULT_SYSTEM, chunks, q, sys, max_tokens, margin)

\* the inputs the prompt assemblers are exercised on
ChunkTextsIn == {<<"x">>, <<"x", " ", "y", " ", "z">>}
Sources == {[name |-> <<"f.pdf">>, page_start |-> 1, page_end |-> 1],
            [name |-> <<"my", " ", "f.pdf">>, page_start |-> 2, page_end |-> 3]}
Scores == {-250, 900}
Questions == {<<"why?">>}
SystemPrompts == {<<>>, <<"S">>}
TokenLimits == {60, 66, 180, 2048}
SafetyMargins == {0, 256}
\* the (max_total_tokens, safety_margin) pairs the assemblers are called with:
\* the three tight limits without margin, the defaults, and a margin larger
\* than the limit
PromptLimits == {<<60, 0>>, <<66, 0>>, <<180, 0>>, <<2048, 256>>, <<60, 256>>}

\* a retrieved chunk, carrying the keys both assemblers read; chunk_id is its
\* position in the input list
RetrievedChunk(id, txt, src, score) ==
    [chunk_id |-> id, text |-> txt, score |-> score,
     source_filename |-> src.name, page_start |-> src.page_start,
     page_end |-> src.page_end,
     source_file |-> src.name, page |-> src.page_start]

RetrievedLists ==
    UNION {
        { [i \in 1..n |-> RetrievedChunk(i, t[i], s[i], sc[i])] :
            t \in [1..n -> ChunkTextsIn], s \in [1..n -> Sources],
            sc \in [1..n -> Scores] } : n \in 0..MaxRetrieved }

IdlePrompt ==
    /\ retrieved = <<>>
    /\ question = <<>>
    /\ system_prompt = <<>>
    /\ max_total_tokens = 0
    /\ safety_margin = 0
    /\ prompt_result = [status |-> "idle", fn |-> "", prompt_text |-> <<>>, used |-> <<>>]

InitPromptInputs ==
    /\ retrieved \in RetrievedLists
    /\ question \in Questions
    /\ system_prompt \in SystemPrompts
    /\ \E l \in PromptLimits : max_total_tokens = l[1] /\ safety_margin = l[2]
    /\ prompt_result = [status |-> "pending", fn |-> "", prompt_text |-> <<>>, used |-> <<>>]

\* calls without retrieved chunks: the questions and system texts they are
\* made with
QuestionChars == {"q", " ", "\n"}
QuestionsIn == SeqsUpTo(QuestionChars, MaxQuestionLen)
SystemTexts == {<<>>, <<"S">>, <<"S", "\n", "T">>}

InitEmptyRetrieval ==
    /\ retrieved = <<>>
    /\ question \in QuestionsIn
    /\ system_prompt \in SystemTexts
    /\ max_total_tokens \in TokenLimits
    /\ safety_margin \in SafetyMargins
    /\ prompt_result = [status |-> "pending", fn |-> "", prompt_text |-> <<>>, used |-> <<>>]

\* a call build_rag_prompt(retrieved, question, system_prompt, max_total_tokens, safety_margin)
CallBuildRagPrompt ==
    /\ prompt_result.status = "pending"
    /\ prompt_result' = BuildRagPrompt(retrieved, question, system_prompt,
                                       max_total_tokens, safety_margin)
    /\ UNCHANGED <<retrieved, question, system_prompt, max_total_tokens, safety_margin>>
    /\ UNCHANGED <<chunkerVars, indexVars, dbVars, clientVars, embedVars, chatVars>>

\* a call build_prompt(retrieved, question, system_prompt, max_total_tokens, safety_margin)
CallBuildPrompt ==
    /\ prompt_result.status = "pending"
    /\ prompt_result' = BuildPrompt(retrieved, question, system_prompt,
                                    max_total_tokens, safety_margin)
    /\ UNCHANGED <<retrieved, question, system_prompt, max_total_tokens, safety_margin>>
    /\ UNCHANGED <<chunkerVars, indexVars, dbVars, clientVars, embedVars, chatVars>>

\* ------------------------------------------------------------ FAISSIndex
\* embedding vectors: unit vectors, so that inner product is cosine similarity
Vectors == {<<1, 0>>, <<0, 1>>}
Docs == {"d1", "d2"}

RECURSIVE Dot(_, _)
\* inner product
Dot(a, b) == IF a = <<>> THEN 0 ELSE Head(a) * Head(b) + Dot(Tail(a), Tail(b))

RECURSIVE L2Sq(_, _)
\* squared Euclidean distance, what a faiss METRIC_L2 index reports
L2Sq(a, b) ==
    IF a = <<>> THEN 0
    ELSE (Head(a) - Head(b)) * (Head(a) - Head(b)) + L2Sq(Tail(a), Tail(b))

\* the distance faiss reports for a result slot it could not fill (label -1):
\* FLT_MAX under METRIC_L2 and -FLT_MAX under inner product
FloatMax == 1000000

\* FAISSIndex._initialize_index: faiss.IndexHNSWFlat(dimension, 32), whose
\* metric is faiss's default METRIC_L2; faiss.IndexFlatIP(dimension) if that raises
InitializeIndex(build) ==
    IF build = "hnsw"
    THEN [type |-> "IndexHNSWFlat", metric |-> "L2", vecs |-> <<>>]
    ELSE [type |-> "IndexFlatIP", metric |-> "IP", vecs |-> <<>>]

\* the files before anything is saved
NoIndexFile == [state |-> "missing", index |-> InitializeIndex("flat")]
NoMetadataFile == [state |-> "missing", total_vectors |-> 0, document_ids |-> {}]
NoFiles == [index_file |-> NoIndexFile, metadata_file |-> NoMetadataFile]

\* FAISSIndex._load_metadata: what json.load gives for a readable file (the
\* document ids come back as a list), else the default with an empty set
LoadMetadata(d) ==
    IF d.metadata_file.state = "ok"
    THEN [total_vectors |-> d.metadata_file.total_vectors,
          document_ids |-> d.metadata_file.document_ids,
          ids_type |-> "list"]
    ELSE [total_vectors |-> 0, document_ids |-> {}, ids_type |-> "set"]

\* FAISSIndex._save_metadata
SaveMetadata(self, d) ==
    [d EXCEPT !.metadata_file =
        [state |-> "ok",
         total_vectors |-> self.metadata.total_vectors,
         document_ids |-> self.metadata.document_ids]]

\* FAISSIndex._save_index
SaveIndex(self, d) ==
    [d EXCEPT !.index_file = [state |-> "ok", index |-> self.index]]

\* FAISSIndex.__init__: a fresh index, and the metadata found on disk
FAISSIndex(build, d) ==
    [index |-> InitializeIndex(build), metadata |-> LoadMetadata(d)]

\* upsert rebuilding the index from the new vectors alone
UpsertReplacing(self, d, document_id, vectors) ==
    IF vectors = <<>> THEN [self |-> self, disk |-> d, status |-> "ok"]
    ELSE LET added == [self EXCEPT !.index.vecs = vectors]
             counted == [added EXCEPT !.metadata.total_vectors = Len(added.index.vecs)]
         IN IF self.metadata.ids_type = "list"
            THEN [self |-> counted, disk |-> d, status |-> "AttributeError"]
            ELSE LET owned == [counted EXCEPT !.metadata.document_ids = @ \cup {document_id}]
                 IN [self |-> owned,
                     disk |-> SaveIndex(owned, SaveMetadata(owned, d)),
                     status |-> "ok"]

\* FAISSIndex.upsert: [self, disk, status]. list.add does not exist, so with
\* metadata loaded from disk the call raises after index.add and before any save
UpsertOn(self, d, document_id, vectors) ==
    IF vectors = <<>> THEN [self |-> self, disk |-> d, status |-> "ok"]
    ELSE LET added == [self EXCEPT !.index.vecs = @ \o vectors]
             counted == [added EXCEPT !.metadata.total_vectors = Len(added.index.vecs)]
         IN IF self.metadata.ids_type = "list"
            THEN [self |-> counted, disk |-> d, status |-> "AttributeError"]
            ELSE LET owned == [counted EXCEPT !.metadata.document_ids = @ \cup {document_id}]
                 IN [self |-> owned,
                     disk |-> SaveIndex(owned, SaveMetadata(owned, d)),
                     status |-> "ok"]

Positions(index) == 0..(Len(index.vecs) - 1)
VecAt(index, p) == index.vecs[p + 1]
Injective(f) == \A a, b \in DOMAIN f : a # b => f[a] # f[b]
RangeOf(f) == {f[a] : a \in DOMAIN f}

\* what index.search(query, kk) of the faiss index can return, as the set of
\* [scores, indices]: kk slots, best first, the slots faiss cannot fill
\* labelled -1.
\*   IndexFlatIP:   exact; inner products, descending
\*   IndexHNSWFlat: approximate graph search; squared L2 distances, ascending
FaissSearch(index, q, kk) ==
    LET n == Len(index.vecs)
        Pad(found, fill) ==
            [scores |-> [j \in 1..kk |-> IF j <= Len(found)
                                         THEN (IF index.metric = "IP"
                                               THEN Dot(q, VecAt(index, found[j]))
                                               ELSE L2Sq(q, VecAt(index, found[j])))
                                         ELSE fill],
             indices |-> [j \in 1..kk |-> IF j <= Len(found) THEN found[j] ELSE -1]]
    IN IF index.metric = "IP"
       THEN { Pad(s, -FloatMax) :
                s \in { s \in [1..Min(kk, n) -> Positions(index)] :
                          /\ Injective(s)
                          /\ \A j \in 1..(Len(s) - 1) :
                                Dot(q, VecAt(index, s[j])) >= Dot(q, VecAt(index, s[j + 1]))
                          /\ \A p \in Positions(index) \ RangeOf(s) : \A j \in 1..Len(s) :
                                Dot(q, VecAt(index, p)) <= Dot(q, VecAt(index, s[j])) } }
       ELSE UNION { { Pad(s, FloatMax) :
                        s \in { s \in [1..f -> Positions(index)] :
                                  /\ Injective(s)
                                  /\ \A j \in 1..(f - 1) :
                                        L2Sq(q, VecAt(index, s[j]))
                                            <= L2Sq(q, VecAt(index, s[j + 1])) } } :
                    f \in 1..Min(kk, n) }

\* search passing k on to faiss without the min(k, ntotal)
IndexSearchUnclamped(self, query_vector, k) ==
    IF Len(self.index.vecs) = 0
    THEN {[scores |-> <<>>, indices |-> <<>>]}
    ELSE FaissSearch(self.index, query_vector, k)

\* FAISSIndex.search: the set of (scores, indices) it can return
IndexSearch(self, query_vector, k) ==
    IF Len(self.index.vecs) = 0
    THEN {[scores |-> <<>>, indices |-> <<>>]}
    ELSE FaissSearch(self.index, query_vector, Min(k, Len(self.index.vecs)))

\* FAISSIndex.clear: [self, disk]
ClearOn(self, d, build) ==
    LET cleared == [index |-> InitializeIndex(build),
                    metadata |-> [total_vectors |-> 0, document_ids |-> {},
                                  ids_type |-> "set"]]
    IN [self |-> cleared, disk |-> SaveMetadata(cleared, SaveIndex(cleared, d))]

\* FAISSIndex.load_index: [self, loaded]
LoadIndexOn(self, d) ==
    IF d.index_file.state = "ok"
    THEN [self |-> [index |-> d.index_file.index, metadata |-> LoadMetadata(d)],
          loaded |-> TRUE]
    ELSE [self |-> self, loaded |-> FALSE]

\* FAISSIndex.get_stats
GetStats(self) ==
    [total_vectors |-> Len(self.index.vecs),
     index_type |-> self.index.type,
     document_count |-> Cardinality(self.metadata.document_ids)]

\* what an object holds and whether all of it is in the files
Snapshot(self, d) ==
    [count |-> Len(self.index.vecs),
     ids |-> self.metadata.document_ids,
     persisted |-> /\ d.index_file.state = "ok"
                   /\ d.index_file.index = self.index
                   /\ d.metadata_file.state = "ok"
                   /\ d.metadata_file.document_ids = self.metadata.document_ids
                   /\ d.metadata_file.total_vectors = self.metadata.total_vectors]

NoOp(names) ==
    [op |-> "none", inst |-> "", status |-> "ok",
     document_id |-> "", vectors |-> <<>>, start_idx |-> 0,
     query |-> <<>>, k |-> 0, scores |-> <<>>, indices |-> <<>>,
     hits |-> <<>>,
     before |-> [i \in names |-> [count |-> 0, ids |-> {}, persisted |-> FALSE]]]

Names == DOMAIN faiss

\* the history after object i holds vecs: positions it fills for the first
\* time are recorded, the others keep their first vector
Record(i, vecs) ==
    [assigned EXCEPT ![i] =
        @ \o SubSeq(vecs, Len(@) + 1, Len(vecs))]

InitIndexes(names) ==
    /\ faiss_build \in {"hnsw", "flat"}
    /\ disk = NoFiles
    /\ faiss = [i \in names |-> FAISSIndex(faiss_build, disk)]
    /\ last_op = NoOp(names)
    /\ assigned = [i \in names |-> <<>>]

IdleIndex ==
    /\ faiss_build = "flat"
    /\ disk = NoFiles
    /\ faiss = [i \in {} |-> 0]
    /\ last_op = NoOp({})
    /\ assigned = [i \in {} |-> 0]

\* self.upsert(document_id, vectors, metadatas)
Upsert(i, document_id, vectors) ==
    /\ Len(faiss[i].index.vecs) + Len(vectors) <= MaxVectors
    /\ LET r == UpsertOn(faiss[i], disk, document_id, vectors)
       IN /\ faiss' = [faiss EXCEPT ![i] = r.self]
          /\ disk' = r.disk
          /\ last_op' = [NoOp(Names) EXCEPT !.op = "upsert", !.inst = i,
                                           !.status = r.status,
                                           !.document_id = document_id,
                                           !.vectors = vectors,
                                           !.start_idx = Len(faiss[i].index.vecs)]
          /\ assigned' = Record(i, r.self.index.vecs)
    /\ UNCHANGED faiss_build

\* self.search(query_vector, k)
Search(i, query_vector, k) ==
    /\ \E r \in IndexSearch(faiss[i], query_vector, k) :
          last_op' = [NoOp(Names) EXCEPT !.op = "search", !.inst = i,
                                           !.query = query_vector, !.k = k,
                                           !.scores = r.scores,
                                           !.indices = r.indices]
    /\ UNCHANGED <<faiss_build, faiss, disk, assigned>>

\* self.clear()
Clear(i) ==
    /\ LET r == ClearOn(faiss[i], disk, faiss_build)
       IN /\ faiss' = [faiss EXCEPT ![i] = r.self]
          /\ disk' = r.disk
    /\ last_op' = [NoOp(Names) EXCEPT !.op = "clear", !.inst = i]
    /\ UNCHANGED <<faiss_build, assigned>>

\* self.load_index()
LoadIndex(i) ==
    /\ LET r == LoadIndexOn(faiss[i], disk)
       IN /\ faiss' = [faiss EXCEPT ![i] = r.self]
          /\ last_op' = [NoOp(Names) EXCEPT !.op = "load_index", !.inst = i,
                             !.status = IF r.loaded THEN "True" ELSE "False"]
          /\ assigned' = Record(i, r.self.index.vecs)
    /\ UNCHANGED <<faiss_build, disk>>

\* the process is started again: every FAISSIndex object is constructed anew
\* on the same index_path
Restart ==
    /\ faiss' = [i \in Names |-> FAISSIndex(faiss_build, disk)]
    /\ last_op' = [NoOp(Names) EXCEPT !.op = "restart",
                       !.before = [i \in Names |-> Snapshot(faiss[i], disk)]]
    /\ assigned' = [i \in Names |-> <<>>]
    /\ UNCHANGED <<faiss_build, disk>>

\* a persisted file is lost or becomes unreadable ("missing" stands for both:
\* os.path.exists being false and the read raising end the same way in
\* _load_metadata and in load_index)
DiskFault ==
    /\ \E f \in {"index_file", "metadata_file"} :
          /\ disk[f].state = "ok"
          /\ disk' = [disk EXCEPT ![f] = NoFiles[f]]
    /\ last_op' = [NoOp(Names) EXCEPT !.op = "disk_fault"]
    /\ UNCHANGED <<faiss_build, faiss, assigned>>

VectorLists == SeqsUpTo(Vectors, MaxUpsert)

CallUpsert ==
    /\ \E i \in Names, d \in Docs, vs \in VectorLists : Upsert(i, d, vs)
    /\ UNCHANGED <<chunkerVars, promptVars, dbVars, clientVars, embedVars, chatVars>>

CallSearch ==
    /\ \E i \in Names, q \in Vectors, k \in 1..MaxK : Search(i, q, k)
    /\ UNCHANGED <<chunkerVars, promptVars, dbVars, clientVars, embedVars, chatVars>>

CallClear ==
    /\ \E i \in Names : Clear(i)
    /\ UNCHANGED <<chunkerVars, promptVars, dbVars, clientVars, embedVars, chatVars>>

CallLoadIndex ==
    /\ \E i \in Names : LoadIndex(i)
    /\ UNCHANGED <<chunkerVars, promptVars, dbVars, clientVars, embedVars, chatVars>>

ProcessRestart == Restart /\ UNCHANGED <<chunkerVars, promptVars, dbVars, clientVars, embedVars, chatVars>>

FileFault == DiskFault /\ UNCHANGED <<chunkerVars, promptVars, dbVars, clientVars, embedVars, chatVars>>

NextIndex ==
    \/ CallUpsert
    \/ CallClear
    \/ CallLoadIndex
    \/ ProcessRestart
    \/ FileFault


\* ------------------------------------------------- the application's handlers
\* settings.default_top_k, settings.max_top_k
DEFAULT_TOP_K == 5
MAX_TOP_K == 20

\* the module-level FAISSIndex objects: faiss_index of api/ingestion.py, of
\* api/search.py and of api/chat.py, each constructed on the default index_path
AppIndexes == {"ingestion", "search", "chat"}

\* a document id is "absent" until ingest_documents issues it and "deleted"
\* once its row is deleted; the other values are Document.status
NoRows == [documents |-> [d \in Docs |-> "absent"], chunks |-> <<>>]

IdleDb == db = NoRows

\* the Chunk rows process_document adds for document_id, one per
\* (chunk, embedding) pair
ChunkRows(document_id, chunk_embeddings) ==
    [j \in 1..Len(chunk_embeddings) |->
        [id |-> <<document_id, j - 1>>,
         document_id |-> document_id,
         chunk_index |-> j - 1,
         embedding_vector |-> chunk_embeddings[j]]]

\* the orders in which the chunks table can hand out its rows: the select in
\* search_chunks has no ORDER BY
TableOrders(rows) ==
    {[j \in 1..Len(rows) |-> rows[p[j]]] :
        p \in {f \in [1..Len(rows) -> 1..Len(rows)] : Injective(f)}}

RECURSIVE ResolveHitsShifted(_, _, _)
\* the loop handing the score of a skipped pair on to the next chunk
ResolveHitsShifted(scores, indices, table) ==
    IF scores = <<>> \/ indices = <<>> THEN <<>>
    ELSE LET idx == Head(indices)
         IN IF idx < 0 \/ idx >= Len(table)
            THEN ResolveHitsShifted(scores, Tail(indices), table)
            ELSE <<[chunk_id |-> table[idx + 1].id,
                    document_id |-> table[idx + 1].document_id,
                    chunk_index |-> table[idx + 1].chunk_index,
                    score |-> Head(scores)]>>
                 \o ResolveHitsShifted(Tail(scores), Tail(indices), table)

RECURSIVE ResolveHits(_, _, _)
\* the loop of search_chunks over zip(scores, indices): a negative position is
\* skipped, a position with no row at that offset is skipped
ResolveHits(scores, indices, table) ==
    IF scores = <<>> \/ indices = <<>> THEN <<>>
    ELSE LET idx == Head(indices)
             rest == ResolveHits(Tail(scores), Tail(indices), table)
         IN IF idx < 0 \/ idx >= Len(table) THEN rest
            ELSE <<[chunk_id |-> table[idx + 1].id,
                    document_id |-> table[idx + 1].document_id,
                    chunk_index |-> table[idx + 1].chunk_index,
                    score |-> Head(scores)]>> \o rest

\* VectorSearchService.search_chunks on the service's index: the set of
\* [scores, indices, hits] it can produce
SearchChunks(self, query_vector, k, rows) ==
    {[scores |-> r.scores, indices |-> r.indices,
      hits |-> IF r.indices = <<>> THEN <<>>
               ELSE ResolveHits(r.scores, r.indices, table)] :
        r \in IndexSearch(self, query_vector, k), table \in TableOrders(rows)}

\* request.k or settings.default_top_k, then min(k, settings.max_top_k);
\* 0 is a request without k
TopK(request_k) ==
    Min(IF request_k = 0 THEN DEFAULT_TOP_K ELSE request_k, MAX_TOP_K)

RequestKs == (0..MaxK) \cup {MAX_TOP_K + 1}

\* ingest_documents, for one uploaded file: the Document row is created with
\* status "processing" and process_document is scheduled for it
IngestDocuments(document_id) ==
    /\ db.documents[document_id] = "absent"
    /\ db' = [db EXCEPT !.documents[document_id] = "processing"]
    /\ last_op' = [NoOp(Names) EXCEPT !.op = "ingest_documents",
                                     !.document_id = document_id]
    /\ UNCHANGED <<faiss_build, faiss, disk, assigned>>

\* process_document, scheduled by ingest_documents.  early_failure: extraction,
\* normalisation, chunking or embedding raises, before any row is added.
\* Otherwise the Chunk rows are added to the session, the ingestion module's
\* index is upserted, and the session is committed: with status "indexed", or,
\* from the except handler when upsert raised, with status "failed".
\* (A document deleted while its task is pending is not followed further.)
ProcessDocument(document_id, chunk_embeddings, early_failure) ==
    /\ db.documents[document_id] = "processing"
    /\ Len(faiss["ingestion"].index.vecs) + Len(chunk_embeddings) <= MaxVectors
    /\ IF early_failure
       THEN /\ db' = [db EXCEPT !.documents[document_id] = "failed"]
            /\ last_op' = [NoOp(Names) EXCEPT !.op = "process_document",
                                             !.inst = "ingestion",
                                             !.status = "Exception",
                                             !.document_id = document_id,
                                             !.start_idx =
                                                 Len(faiss["ingestion"].index.vecs)]
            /\ UNCHANGED <<faiss, disk, assigned>>
       ELSE LET r == UpsertOn(faiss["ingestion"], disk, document_id, chunk_embeddings)
            IN /\ faiss' = [faiss EXCEPT !["ingestion"] = r.self]
               /\ disk' = r.disk
               /\ assigned' = Record("ingestion", r.self.index.vecs)
               /\ db' = [db EXCEPT
                           !.chunks = @ \o ChunkRows(document_id, chunk_embeddings),
                           !.documents[document_id] =
                               IF r.status = "ok" THEN "indexed" ELSE "failed"]
               /\ last_op' = [NoOp(Names) EXCEPT
                                 !.op = "process_document",
                                 !.inst = "ingestion",
                                 !.status = r.status,
                                 !.document_id = document_id,
                                 !.vectors = chunk_embeddings,
                                 !.start_idx = Len(faiss["ingestion"].index.vecs)]
    /\ UNCHANGED faiss_build

\* delete_document: the Document row and, by cascade, its Chunk rows are
\* deleted; no index is touched
DeleteDocument(document_id) ==
    /\ db.documents[document_id] \in {"indexed", "failed"}
    /\ db' = [documents |-> [db.documents EXCEPT ![document_id] = "deleted"],
              chunks |-> SelectSeq(db.chunks,
                                   LAMBDA row : row.document_id # document_id)]
    /\ last_op' = [NoOp(Names) EXCEPT !.op = "delete_document",
                                     !.document_id = document_id]
    /\ UNCHANGED <<faiss_build, faiss, disk, assigned>>

\* search_service.search_chunks(query_vector, k, db) on the service whose index
\* is the object inst
ServiceSearch(op, inst, query_vector, k) ==
    /\ \E r \in SearchChunks(faiss[inst], query_vector, k, db.chunks) :
          last_op' = [NoOp(Names) EXCEPT !.op = op, !.inst = inst,
                                           !.query = query_vector,
                                           !.k = k,
                                           !.scores = r.scores,
                                           !.indices = r.indices,
                                           !.hits = r.hits]
    /\ UNCHANGED <<faiss_build, faiss, disk, assigned, db>>

\* the retrieval of an endpoint: search_chunks of api/search.py (inst "search")
\* and the embed-and-search step of chat / chat_stream (inst "chat"), each on
\* the search_service of its own module
EndpointSearch(op, inst, query_vector, request_k) ==
    ServiceSearch(op, inst, query_vector, TopK(request_k))

CallIngestDocuments ==
    /\ \E d \in Docs : IngestDocuments(d)
    /\ UNCHANGED <<chunkerVars, promptVars, clientVars, embedVars, chatVars>>

CallProcessDocument ==
    /\ \E d \in Docs, vs \in VectorLists, early_failure \in BOOLEAN :
          ProcessDocument(d, vs, early_failure)
    /\ UNCHANGED <<chunkerVars, promptVars, clientVars, embedVars, chatVars>>

CallDeleteDocument ==
    /\ \E d \in Docs : DeleteDocument(d)
    /\ UNCHANGED <<chunkerVars, promptVars, clientVars, embedVars, chatVars>>

SearchEndpoint ==
    /\ \E q \in Vectors, request_k \in RequestKs :
          EndpointSearch("search_chunks", "search", q, request_k)
    /\ UNCHANGED <<chunkerVars, promptVars, clientVars, embedVars, chatVars>>

\* ChatRequest.top_k is at most max_top_k
ChatEndpoint ==
    /\ \E q \in Vectors, request_k \in 0..MaxK :
          EndpointSearch("chat", "chat", q, request_k)
    /\ UNCHANGED <<chunkerVars, promptVars, clientVars, embedVars, chatVars>>

\* the application is started again with no process_document pending
AppRestart ==
    /\ \A d \in Docs : db.documents[d] # "processing"
    /\ Restart
    /\ UNCHANGED <<chunkerVars, promptVars, dbVars, clientVars, embedVars, chatVars>>

\* a VectorSearchService over one FAISSIndex object: the chunks tables it can
\* be given, of 0..MaxRows rows
ServiceTables ==
    {ChunkRows("d1", [j \in 1..n |-> <<1, 0>>]) : n \in 0..MaxRows}

InitServiceDb ==
    \E table \in ServiceTables :
        db = [documents |-> [d \in Docs |-> IF d = "d1" THEN "indexed" ELSE "absent"],
              chunks |-> table]

\* the index of the service is filled one vector at a time, up to as many
\* vectors as the largest table has rows
CallServiceUpsert ==
    /\ Len(faiss["index"].index.vecs) < MaxRows
    /\ \E v \in Vectors : Upsert("index", "d1", <<v>>)
    /\ UNCHANGED <<chunkerVars, promptVars, dbVars, clientVars, embedVars, chatVars>>

CallSearchChunks ==
    /\ \E q \in Vectors, k \in 1..MaxK : ServiceSearch("search_chunks", "index", q, k)
    /\ UNCHANGED <<chunkerVars, promptVars, clientVars, embedVars, chatVars>>

NextApp ==
    \/ CallIngestDocuments
    \/ CallProcessDocument
    \/ CallDeleteDocument
    \/ SearchEndpoint
    \/ ChatEndpoint
    \/ AppRestart

\* ------------------------------------------------------ WatsonxClient
\* what one call of model.generate_text can do: raise, return a string, return
\* a dict with a non-empty "generated_text", return a dict without one
BackendOutcomes == {"raise", "str", "dict", "dict_no_text"}

NoResult == [answer |-> <<>>, raw |-> "", error |-> FALSE]

\* the GenerationResult of a successful call: answer is raw itself when raw is
\* a string, raw["generated_text"] when that is non-empty, str(raw) otherwise
Generated(raw) ==
    [answer |-> CASE raw = "str" -> <<"text">>
                  [] raw = "dict" -> <<"generated_text">>
                  [] OTHER -> <<"str(raw)">>,
     raw |-> raw,
     error |-> FALSE]

\* the GenerationResult after the loop: answer "", raw {"error": ...},
\* meta["error"] True
Exhausted == [answer |-> <<>>, raw |-> "error", error |-> TRUE]

CallEvent(outcome) == [kind |-> "call", outcome |-> outcome, seconds |-> 0]
SleepEvent(seconds) == [kind |-> "sleep", outcome |-> "", seconds |-> seconds]

RECURSIVE RetryLoopSleepingAlways(_, _, _, _)
\* the loop sleeping after every failed attempt, the last one included
RetryLoopSleepingAlways(retries, outcomes, attempt, events) ==
    IF attempt > retries THEN [events |-> events, result |-> Exhausted]
    ELSE IF outcomes[attempt] # "raise"
         THEN [events |-> Append(events, CallEvent(outcomes[attempt])),
               result |-> Generated(outcomes[attempt])]
         ELSE RetryLoopSleepingAlways(retries, outcomes, attempt + 1,
                  events \o <<CallEvent("raise"),
                              SleepEvent(Min(2 ^ (attempt - 1), 5))>>)

RECURSIVE RetryLoop(_, _, _, _)
\* for attempt in range(1, self.max_retries + 1): the calls and sleeps made,
\* in order, and the value returned
RetryLoop(retries, outcomes, attempt, events) ==
    IF attempt > retries THEN [events |-> events, result |-> Exhausted]
    ELSE IF outcomes[attempt] # "raise"
         THEN [events |-> Append(events, CallEvent(outcomes[attempt])),
               result |-> Generated(outcomes[attempt])]
         ELSE IF attempt = retries
              THEN [events |-> Append(events, CallEvent("raise")),
                    result |-> Exhausted]
              ELSE RetryLoop(retries, outcomes, attempt + 1,
                       events \o <<CallEvent("raise"),
                                   SleepEvent(Min(2 ^ (attempt - 1), 5))>>)

\* WatsonxClient.generate_from_prompt
GenerateFromPrompt(retries, outcomes) == RetryLoop(retries, outcomes, 1, <<>>)

IdleClient ==
    /\ max_retries = 0
    /\ backend = <<>>
    /\ gen_result = [status |-> "idle", fn |-> "", events |-> <<>>, result |-> NoResult]

InitClientInputs ==
    /\ max_retries \in 0..MaxRetries
    /\ backend \in [1..max_retries -> BackendOutcomes]
    /\ gen_result = [status |-> "pending", fn |-> "", events |-> <<>>, result |-> NoResult]

GenerateWith(fn) ==
    /\ gen_result.status = "pending"
    /\ LET r == GenerateFromPrompt(max_retries, backend)
       IN gen_result' = [status |-> "returned", fn |-> fn,
                         events |-> r.events, result |-> r.result]
    /\ UNCHANGED <<max_retries, backend>>

\* app.llm.watsonx_client.WatsonxClient.generate_from_prompt
CallGenerateFromPrompt ==
    /\ GenerateWith("backend")
    /\ UNCHANGED <<chunkerVars, promptVars, indexVars, dbVars, embedVars, chatVars>>

\* milestone3.src.watsonx_client.WatsonxClient.generate_from_prompt
CallM3GenerateFromPrompt ==
    /\ GenerateWith("milestone3")
    /\ UNCHANGED <<chunkerVars, promptVars, indexVars, dbVars, embedVars, chatVars>>

\* --------------------------------------------------------------- embeddings
\* retrieval/embeddings.py.  A text is a single token; SentenceTransformer.encode
\* gives each text a vector of some length in its own direction, and a vector
\* is held as [of, norm]: the text it encodes and its L2 norm.
EmbedKinds == {"SentenceTransformersEmbeddings", "WatsonxEmbeddings",
               "BatchedEmbeddings(SentenceTransformersEmbeddings)",
               "BatchedEmbeddings(WatsonxEmbeddings)"}
Wrapped(kind) ==
    IF kind = "BatchedEmbeddings(SentenceTransformersEmbeddings)"
    THEN "SentenceTransformersEmbeddings"
    ELSE IF kind = "BatchedEmbeddings(WatsonxEmbeddings)" THEN "WatsonxEmbeddings"
    ELSE kind
IsBatched(kind) == Wrapped(kind) # kind

TextsIn == {"a", "b"}
EncodeOutcomes == {"ok", "raise"}

\* self.model.encode(texts, convert_to_numpy=True), row by row
Encode(t) == [of |-> t, norm |-> IF t = "a" THEN 2 ELSE 3]
\* embeddings / np.linalg.norm(embeddings, axis=1, keepdims=True)
Normalize(v) == [of |-> v.of, norm |-> v.norm \div v.norm]

EncodeEvent(ts) == [kind |-> "encode", texts |-> ts]
EmbedEvent(batch) == [kind |-> "embed_texts", texts |-> batch]
DelayEvent == [kind |-> "sleep", texts |-> <<>>]

Returned(value, events) ==
    [status |-> "returned", error |-> "", value |-> value, events |-> events]
Raised(error, events) ==
    [status |-> "raised", error |-> error, value |-> <<>>, events |-> events]

\* SentenceTransformersEmbeddings.embed_texts with its guard on an empty list left out
SentenceTransformersEmbedTextsUnguarded(ts, outcome) ==
    IF outcome = "raise" THEN Raised("BackendError", <<EncodeEvent(ts)>>)
    ELSE Returned([i \in 1..Len(ts) |-> Normalize(Encode(ts[i]))],
                  <<EncodeEvent(ts)>>)

\* SentenceTransformersEmbeddings.embed_texts; outcome is what encode does if
\* it is called
SentenceTransformersEmbedTexts(ts, outcome) ==
    IF ts = <<>> THEN Returned(<<>>, <<>>)
    ELSE IF outcome = "raise" THEN Raised("BackendError", <<EncodeEvent(ts)>>)
    ELSE Returned([i \in 1..Len(ts) |-> Normalize(Encode(ts[i]))],
                  <<EncodeEvent(ts)>>)

\* WatsonxEmbeddings.embed_texts: the body raises NotImplementedError, which
\* the except clause turns into RuntimeError
WatsonxEmbedTexts(ts) ==
    IF ts = <<>> THEN Returned(<<>>, <<>>)
    ELSE Raised("RuntimeError", <<>>)

\* self.embeddings.embed_texts(batch) of the wrapped provider
ProviderEmbedTexts(provider, ts, outcome) ==
    IF provider = "WatsonxEmbeddings" THEN WatsonxEmbedTexts(ts)
    ELSE SentenceTransformersEmbedTexts(ts, outcome)

\* the loop of BatchedEmbeddings.embed_texts going on after a failed batch
RECURSIVE BatchLoopSkippingFailures(_, _, _, _, _, _, _, _)
BatchLoopSkippingFailures(provider, ts, batch_size, i, outcomes, call, all_embeddings, events) ==
    IF i >= Len(ts) THEN Returned(all_embeddings, events)
    ELSE LET batch == SubSeq(ts, i + 1, Min(i + batch_size, Len(ts)))
             r == ProviderEmbedTexts(provider, batch, outcomes[call])
             after == events \o <<EmbedEvent(batch)>> \o r.events
         IN BatchLoopSkippingFailures(provider, ts, batch_size, i + batch_size,
                    outcomes, call + 1, all_embeddings \o r.value,
                    IF i + batch_size < Len(ts)
                    THEN Append(after, DelayEvent) ELSE after)

\* the loop of BatchedEmbeddings.embed_texts sleeping after every batch
RECURSIVE BatchLoopSleepingAlways(_, _, _, _, _, _, _, _)
BatchLoopSleepingAlways(provider, ts, batch_size, i, outcomes, call, all_embeddings, events) ==
    IF i >= Len(ts) THEN Returned(all_embeddings, events)
    ELSE LET batch == SubSeq(ts, i + 1, Min(i + batch_size, Len(ts)))
             r == ProviderEmbedTexts(provider, batch, outcomes[call])
             after == events \o <<EmbedEvent(batch)>> \o r.events
         IN IF r.status = "raised" THEN Raised(r.error, after)
            ELSE BatchLoopSleepingAlways(provider, ts, batch_size, i + batch_size,
                    outcomes, call + 1, all_embeddings \o r.value,
                    Append(after, DelayEvent))

\* for i in range(0, len(texts), self.batch_size): one provider call per
\* batch, the exception of a call leaving the loop, a sleep when another batch
\* follows
RECURSIVE BatchLoop(_, _, _, _, _, _, _, _)
BatchLoop(provider, ts, batch_size, i, outcomes, call, all_embeddings, events) ==
    IF i >= Len(ts) THEN Returned(all_embeddings, events)
    ELSE LET batch == SubSeq(ts, i + 1, Min(i + batch_size, Len(ts)))
             r == ProviderEmbedTexts(provider, batch, outcomes[call])
             after == events \o <<EmbedEvent(batch)>> \o r.events
         IN IF r.status = "raised" THEN Raised(r.error, after)
            ELSE BatchLoop(provider, ts, batch_size, i + batch_size,
                    outcomes, call + 1, all_embeddings \o r.value,
                    IF i + batch_size < Len(ts)
                    THEN Append(after, DelayEvent) ELSE after)

\* BatchedEmbeddings.embed_texts; range() refuses a step of 0
BatchedEmbedTexts(provider, ts, batch_size, outcomes) ==
    IF ts = <<>> THEN Returned(<<>>, <<>>)
    ELSE IF batch_size = 0 THEN Raised("ValueError", <<>>)
    ELSE BatchLoop(provider, ts, batch_size, 0, outcomes, 1, <<>>, <<>>)

\* embed_texts of a provider object
EmbedTexts(e, ts, outcomes) ==
    IF IsBatched(e.kind)
    THEN BatchedEmbedTexts(Wrapped(e.kind), ts, e.batch_size, outcomes)
    ELSE ProviderEmbedTexts(e.kind, ts, IF outcomes = <<>> THEN "ok" ELSE outcomes[1])

NoEmbedResult == [status |-> "idle", error |-> "", value |-> <<>>, events |-> <<>>]

IdleEmbeddings ==
    /\ embeddings = [kind |-> "", batch_size |-> 0]
    /\ texts = <<>>
    /\ encode_outcomes = <<>>
    /\ embed_result = NoEmbedResult

\* the provider objects: a batch size matters to the batching wrapper only,
\* and what encode does to SentenceTransformersEmbeddings only
Providers ==
    { [kind |-> k, batch_size |-> b] : k \in EmbedKinds, b \in 0..MaxBatchSize }
        \ { e \in [kind : EmbedKinds, batch_size : 0..MaxBatchSize] :
                ~IsBatched(e.kind) /\ e.batch_size # 0 }

InitEmbeddingsInputs ==
    /\ embeddings \in Providers
    /\ texts \in SeqsUpTo(TextsIn, MaxTexts)
    /\ encode_outcomes \in [1..Len(texts) -> EncodeOutcomes]
    /\ (Wrapped(embeddings.kind) = "WatsonxEmbeddings" =>
            \A c \in 1..Len(texts) : encode_outcomes[c] = "ok")
    /\ embed_result = [NoEmbedResult EXCEPT !.status = "pending"]

EmbedTextsOn(kinds) ==
    /\ embed_result.status = "pending"
    /\ embeddings.kind \in kinds
    /\ embed_result' = EmbedTexts(embeddings, texts, encode_outcomes)
    /\ UNCHANGED <<embeddings, texts, encode_outcomes>>
    /\ UNCHANGED <<chunkerVars, promptVars, indexVars, dbVars, clientVars, chatVars>>

CallSentenceTransformersEmbedTexts == EmbedTextsOn({"SentenceTransformersEmbeddings"})
CallWatsonxEmbedTexts == EmbedTextsOn({"WatsonxEmbeddings"})
CallBatchedEmbedTexts ==
    EmbedTextsOn({"BatchedEmbeddings(SentenceTransformersEmbeddings)",
                  "BatchedEmbeddings(WatsonxEmbeddings)"})

\* --------------------------------------------------------------------- chat
\* api/chat.py.  Chats are created elsewhere (Chat.user_id is NOT NULL and the
\* handlers give none, so the flush of a new Chat fails); a request names an
\* existing chat, a chat that does not exist, or no chat.
ExistingChats == {"c1", "c2"}
ChatIds == ExistingChats \cup {"none", "gone"}
Queries == {<<"why?">>}

\* a chunk text of MaxChunkWords words, more than the budget of a prompt
\* (2048 - 256 tokens) has room for
LongText == [i \in 1..(2 * MaxChunkWords - 1) |-> IF i % 2 = 1 THEN "w" ELSE " "]

\* a dict of the list search_chunks returns
ChunkData(document_id, score, txt) ==
    [chunk_id |-> <<document_id, 0>>, document_id |-> document_id,
     text |-> txt, page_start |-> 1, page_end |-> 1,
     score |-> score, chunk_index |-> 0]

\* the chunk ids of a list of dicts
ChunkIds(chunk_data) == [j \in 1..Len(chunk_data) |-> chunk_data[j].chunk_id]

\* the lists search_chunks can return: one dict per chunk row, scores in the
\* order the index reports them (descending inner products from IndexFlatIP,
\* ascending distances from IndexHNSWFlat)
ChunkDataLists ==
    {<<>>}
        \cup { <<ChunkData("d1", s, <<"x">>)>> : s \in Scores }
        \cup { <<ChunkData("d1", s, <<"x">>), ChunkData("d2", t, <<"x">>)>> :
                 s \in Scores, t \in Scores }
        \cup { <<ChunkData("d1", 900, <<"x">>), ChunkData("d2", 250, LongText)>> }

\* what embeddings.embed_texts([request.query]) does
QueryEmbedOutcomes == {"ok", "raise"}

\* what model.generate_text does at the attempts of generate_from_prompt;
\* "no_client" is get_watsonx_client() or _build_api() raising
DefaultMaxRetries == 3
GenerateOutcomes ==
    {[client |-> "no_client", attempts |-> <<"raise", "raise", "raise">>]} \cup
    {[client |-> "ok", attempts |-> o] :
        o \in {<<"str", "str", "str">>, <<"raise", "dict", "str">>,
               <<"raise", "raise", "raise">>}}

\* what model.generate_text_stream does: the chunks it hands over, then the
\* end of the stream or an exception; "no_client" as above
StreamChunks == {<<>>, <<"attr", "other", "str", "dict">>}
StreamOutcomes ==
    {[connect |-> "no_client", chunks |-> <<>>, fails |-> FALSE]} \cup
    {[connect |-> "ok", chunks |-> c, fails |-> f] : c \in StreamChunks, f \in BOOLEAN}

ErrorToken == <<"Error:", " ", "e">>

RECURSIVE StreamTokens(_)
\* the for loop of generate_stream: a token per chunk that has generated_text,
\* is a str or is a dict with "generated_text"; any other chunk is passed over
StreamTokens(chunks) ==
    IF chunks = <<>> THEN <<>>
    ELSE (IF Head(chunks) \in {"attr", "str", "dict"} THEN <<<<"tok">>>> ELSE <<>>)
             \o StreamTokens(Tail(chunks))

\* WatsonxClient.generate_stream: the tokens it yields; the exception of the
\* backend is yielded as one more token, f"Error: {str(e)}"
GenerateStream(outcome) ==
    [tokens |-> StreamTokens(outcome.chunks)
                    \o (IF outcome.fails THEN <<ErrorToken>> ELSE <<>>),
     raised |-> FALSE]

RECURSIVE Concat(_)
\* full_answer += token
Concat(tokens) == IF tokens = <<>> THEN <<>> ELSE Head(tokens) \o Concat(Tail(tokens))

Message(id, chat_id, role, txt) ==
    [id |-> id, chat_id |-> chat_id, role |-> role, text |-> txt]

\* the Citation rows without the rank of the chunk: one per retrieved chunk
CitationsOfRetrieved(message_id, used_chunks, chunk_data) ==
    [j \in 1..Len(chunk_data) |->
        [message_id |-> message_id,
         document_id |-> chunk_data[j].document_id,
         chunk_id |-> chunk_data[j].chunk_id,
         score |-> chunk_data[j].score]]

\* for chunk in used_chunks: Citation(message_id, document_id, chunk_id, score)
CitationsOf(message_id, used_chunks, chunk_data) ==
    [j \in 1..Len(used_chunks) |->
        [message_id |-> message_id,
         document_id |-> used_chunks[j].document_id,
         chunk_id |-> used_chunks[j].chunk_id,
         score |-> used_chunks[j].score]]

\* CitationResponse / citation_data of the answer, built from the Citation rows
CitationResponses(rows) ==
    [j \in 1..Len(rows) |->
        [document_id |-> rows[j].document_id,
         chunk_id |-> rows[j].chunk_id,
         score |-> rows[j].score]]

NoChatResult ==
    [request |-> 0,
     path |-> "", status |-> "idle", chat_id |-> "", retrieved |-> <<>>,
     used_chunks |-> <<>>, backend_failed |-> FALSE, answer |-> <<>>,
     message_id |-> 0, citations |-> <<>>, events |-> <<>>,
     added |-> [messages |-> <<>>, citations |-> <<>>]]

\* the handler left through its except clause: db.rollback()
Failed(path, status, chat_id, events) ==
    [NoChatResult EXCEPT !.path = path, !.status = status, !.chat_id = chat_id,
                         !.events = events]

TokenEvent(token) == [event |-> "token", delta |-> token, citations |-> <<>>]
DoneEvent(cits) == [event |-> "done", delta |-> <<>>, citations |-> cits]
ErrorEvent == [event |-> "error", delta |-> <<>>, citations |-> <<>>]

\* POST /chat/: next_id is the id the first row added gets
Chat(chat_id, query, next_id, embed_outcome, chunk_data, generate_outcome) ==
    IF chat_id \notin ExistingChats THEN Failed("chat", "500", chat_id, <<>>)
    ELSE IF embed_outcome = "raise" THEN Failed("chat", "500", chat_id, <<>>)
    ELSE IF generate_outcome.client = "no_client" THEN Failed("chat", "500", chat_id, <<>>)
    ELSE LET built == BuildRagPrompt(chunk_data, query, <<>>, 2048, 256)
             result == GenerateFromPrompt(DefaultMaxRetries, generate_outcome.attempts).result
             user_message == Message(next_id, chat_id, "user", query)
             assistant_message == Message(next_id + 1, chat_id, "assistant", result.answer)
             rows == CitationsOf(assistant_message.id, built.used, chunk_data)
         IN [NoChatResult EXCEPT
                !.path = "chat", !.status = "200", !.chat_id = chat_id,
                !.retrieved = ChunkIds(chunk_data), !.used_chunks = built.used,
                !.backend_failed = result.error,
                !.answer = result.answer,
                !.message_id = assistant_message.id,
                !.citations = CitationResponses(rows),
                !.added = [messages |-> <<user_message, assistant_message>>,
                           citations |-> rows]]

\* POST /chat/stream: the events the response carries and the rows committed
ChatStream(chat_id, query, next_id, embed_outcome, chunk_data, stream_outcome) ==
    IF chat_id \notin ExistingChats THEN Failed("chat_stream", "error", chat_id, <<ErrorEvent>>)
    ELSE IF embed_outcome = "raise"
         THEN Failed("chat_stream", "error", chat_id, <<ErrorEvent>>)
    ELSE IF stream_outcome.connect = "no_client"
         THEN Failed("chat_stream", "error", chat_id, <<ErrorEvent>>)
    ELSE LET built == BuildRagPrompt(chunk_data, query, <<>>, 2048, 256)
             stream == GenerateStream(stream_outcome)
             token_events == [j \in 1..Len(stream.tokens) |-> TokenEvent(stream.tokens[j])]
             full_answer == Concat(stream.tokens)
             user_message == Message(next_id, chat_id, "user", query)
             assistant_message == Message(next_id + 1, chat_id, "assistant", full_answer)
             rows == CitationsOf(assistant_message.id, built.used, chunk_data)
         IN IF stream.raised
            THEN [Failed("chat_stream", "error", chat_id,
                         Append(token_events, ErrorEvent))
                     EXCEPT !.backend_failed = TRUE]
            ELSE [NoChatResult EXCEPT
                    !.path = "chat_stream", !.status = "done", !.chat_id = chat_id,
                    !.retrieved = ChunkIds(chunk_data), !.used_chunks = built.used,
                    !.backend_failed = stream_outcome.fails,
                    !.answer = full_answer,
                    !.message_id = assistant_message.id,
                    !.citations = CitationResponses(rows),
                    !.events = Append(token_events, DoneEvent(CitationResponses(rows))),
                    !.added = [messages |-> <<user_message, assistant_message>>,
                               citations |-> rows]]

IdleChat ==
    /\ messages = <<>>
    /\ citations = <<>>
    /\ chat_result = NoChatResult

\* db.commit() of the rows the handler added, none after db.rollback();
\* request counts the requests handled
Commit(r) ==
    /\ chat_result.request < MaxRequests
    /\ chat_result' = [r EXCEPT !.request = chat_result.request + 1]
    /\ messages' = messages \o r.added.messages
    /\ citations' = citations \o r.added.citations

PostChat ==
    /\ \E chat_id \in ChatIds, query \in Queries, e \in QueryEmbedOutcomes,
          chunk_data \in ChunkDataLists, g \in GenerateOutcomes :
          Commit(Chat(chat_id, query, Len(messages) + 1, e, chunk_data, g))
    /\ UNCHANGED <<chunkerVars, promptVars, indexVars, dbVars, clientVars, embedVars>>

PostChatStream ==
    /\ \E chat_id \in ChatIds, query \in Queries, e \in QueryEmbedOutcomes,
          chunk_data \in ChunkDataLists, g \in StreamOutcomes :
          Commit(ChatStream(chat_id, query, Len(messages) + 1, e, chunk_data, g))
    /\ UNCHANGED <<chunkerVars, promptVars, indexVars, dbVars, clientVars, embedVars>>

\* ------------------------------------------------------------ specifications
vars == <<chunkerVars, promptVars, indexVars, dbVars, clientVars, embedVars, chatVars>>

InitChunker == InitChunkerInputs /\ IdlePrompt /\ IdleIndex /\ IdleDb /\ IdleClient /\ IdleEmbeddings /\ IdleChat
SpecChunker == InitChunker /\ [][CallChunkText]_vars

InitPrompt == IdleChunker /\ InitPromptInputs /\ IdleIndex /\ IdleDb /\ IdleClient /\ IdleEmbeddings /\ IdleChat
NextPrompt == CallBuildRagPrompt \/ CallBuildPrompt
SpecPrompt == InitPrompt /\ [][NextPrompt]_vars

\* one FAISSIndex object under the calls that change it or its files
InitIndex == IdleChunker /\ IdlePrompt /\ InitIndexes({"index"}) /\ IdleDb /\ IdleClient /\ IdleEmbeddings /\ IdleChat
SpecIndex == InitIndex /\ [][NextIndex]_vars

\* one FAISSIndex object, filled by upsert, under search
NextSearch == CallUpsert \/ CallSearch
SpecSearch == InitIndex /\ [][NextSearch]_vars

\* the two assemblers called without retrieved chunks
InitPromptEmpty ==
    IdleChunker /\ InitEmptyRetrieval /\ IdleIndex /\ IdleDb /\ IdleClient /\ IdleEmbeddings /\ IdleChat
SpecPromptEmpty == InitPromptEmpty /\ [][NextPrompt]_vars

\* the generation client under every backend behaviour
InitClient ==
    IdleChunker /\ IdlePrompt /\ IdleIndex /\ IdleDb /\ InitClientInputs
        /\ IdleEmbeddings /\ IdleChat
NextClient == CallGenerateFromPrompt \/ CallM3GenerateFromPrompt
SpecClient == InitClient /\ [][NextClient]_vars

\* one FAISSIndex object with callers of upsert and of search, across restarts
\* of the process.  upsert and search contain no await and every caller runs
\* on the event loop, so a call runs from its first line to its return or
\* raise before another caller's call starts.
NextCallers == CallUpsert \/ CallSearch \/ ProcessRestart
SpecCallers == InitIndex /\ [][NextCallers]_vars

\* one VectorSearchService over one FAISSIndex object, filled by upsert
InitService == IdleChunker /\ IdlePrompt /\ InitIndexes({"index"}) /\ InitServiceDb /\ IdleClient /\ IdleEmbeddings /\ IdleChat
NextService == CallServiceUpsert \/ CallSearchChunks
SpecService == InitService /\ [][NextService]_vars

\* chunk_text followed by validate_overlap on its chunks
InitValidate ==
    InitValidateInputs /\ IdlePrompt /\ IdleIndex /\ IdleDb /\ IdleClient
        /\ IdleEmbeddings /\ IdleChat
NextValidate == CallChunkText \/ CallValidateOverlap
SpecValidate == InitValidate /\ [][NextValidate]_vars

\* the chat endpoints on every request, retrieval and backend behaviour
InitChat ==
    IdleChunker /\ IdlePrompt /\ IdleIndex /\ IdleDb /\ IdleClient
        /\ IdleEmbeddings /\ IdleChat
NextChat == PostChat \/ PostChatStream
SpecChat == InitChat /\ [][NextChat]_vars

\* the embedding providers on every list of texts
InitEmbeddings ==
    IdleChunker /\ IdlePrompt /\ IdleIndex /\ IdleDb /\ IdleClient
        /\ InitEmbeddingsInputs /\ IdleChat
NextEmbeddings ==
    CallSentenceTransformersEmbedTexts \/ CallWatsonxEmbedTexts \/ CallBatchedEmbedTexts
SpecEmbeddings == InitEmbeddings /\ [][NextEmbeddings]_vars

\* the application: its three FAISSIndex objects and its database
InitApp == IdleChunker /\ IdlePrompt /\ InitIndexes(AppIndexes) /\ IdleDb /\ IdleClient /\ IdleEmbeddings /\ IdleChat
SpecApp == InitApp /\ [][NextApp]_vars

\* ------------------------------------------------------- Chunker properties
ChunkDone == chunk_result.status # "pending"
ValidConfig == 0 <= chunker.chunk_overlap /\ chunker.chunk_overlap < chunker.chunk_size
NumWords == Len(Split(text))
Chunks == chunk_result.chunks

\* C1: with 0 <= chunk_overlap < chunk_size, chunk_text returns without raising
\* 0 chunks for a text of no words, 1 chunk for 1 <= N < chunk_size words, and
\* ceil((N - chunk_size) / stride) + 1 chunks for N >= chunk_size words, which
\* is _calculate_num_chunks(N) for N >= 1.
C1_ChunkCount ==
    (ChunkDone /\ ValidConfig) =>
        /\ chunk_result.status = "ok"
        /\ (NumWords = 0) = (Strip(text) = <<>>)
        /\ NumWords = 0 => Len(Chunks) = 0
        /\ (1 <= NumWords /\ NumWords < chunker.chunk_size) => Len(Chunks) = 1
        /\ NumWords >= chunker.chunk_size =>
              Len(Chunks) = CeilDiv(NumWords - chunker.chunk_size, chunker.stride) + 1
        /\ NumWords >= 1 => Len(Chunks) = CalculateNumChunks(chunker, NumWords)

\* a text of more than chunk_size words cut into windows, the last one short
\* (N - chunk_size is no multiple of the stride)
C1_Witness ==
    /\ ChunkDone /\ ValidConfig
    /\ NumWords > chunker.chunk_size
    /\ Len(Chunks) >= 2
    /\ (NumWords - chunker.chunk_size) % chunker.stride # 0
    /\ Chunks[Len(Chunks)].word_count < chunker.chunk_size

\* C2: for adjacent chunks i, i+1 that each hold at least chunk_overlap words,
\* the last chunk_overlap words of chunk i are the first chunk_overlap words
\* of chunk i+1.
C2_Overlap ==
    (ChunkDone /\ ValidConfig) =>
        \A i \in 1..(Len(Chunks) - 1) :
            LET cur == Split(Chunks[i].text)
                nxt == Split(Chunks[i + 1].text)
                k == chunker.chunk_overlap
            IN (Len(cur) >= k /\ Len(nxt) >= k) =>
                   SubSeq(cur, Len(cur) - k + 1, Len(cur)) = SubSeq(nxt, 1, k)

\* two adjacent chunks sharing a non-empty overlap of differing words
C2_Witness ==
    /\ ChunkDone /\ ValidConfig
    /\ chunker.chunk_overlap = 2
    /\ Len(Chunks) >= 2
    /\ Len(Split(Chunks[2].text)) >= 2
    /\ LET nxt == Split(Chunks[2].text) IN nxt[1] # nxt[2]

\* C3: for N >= 1 words the chunks carry chunk_index 0, 1, 2, ... in list
\* order, chunk i starts at i * stride and ends at min(start + chunk_size, N),
\* and exactly one chunk, the last, ends at N.
C3_Windows ==
    (ChunkDone /\ ValidConfig /\ NumWords >= 1) =>
        /\ Len(Chunks) >= 1
        /\ \A i \in 1..Len(Chunks) :
              /\ Chunks[i].chunk_index = i - 1
              /\ Chunks[i].start_word = (i - 1) * chunker.stride
              /\ Chunks[i].end_word =
                    Min(Chunks[i].start_word + chunker.chunk_size, NumWords)
              /\ (Chunks[i].end_word = NumWords) = (i = Len(Chunks))

\* a run of windows whose first window to reach N is cut short by the text end
C3_Witness ==
    /\ ChunkDone /\ ValidConfig
    /\ Len(Chunks) >= 2
    /\ chunker.stride >= 2
    /\ Chunks[Len(Chunks)].end_word = NumWords
    /\ Chunks[Len(Chunks)].start_word + chunker.chunk_size > NumWords

\* ---------------------------------------------- prompt assembler properties
PromptDone == prompt_result.status = "ok"
Used == prompt_result.used
RetrievedSet == {retrieved[i] : i \in 1..Len(retrieved)}
UsedSet == {Used[j] : j \in 1..Len(Used)}
LeftOut == RetrievedSet \ UsedSet

\* c is ranked ahead of d: a higher score, or the same score and earlier in
\* the input
RanksBefore(c, d) ==
    c.score > d.score \/ (c.score = d.score /\ c.chunk_id < d.chunk_id)

\* C4: for a non-empty input, used_chunks of build_rag_prompt and of
\* build_prompt is a prefix of the input ranked by descending score with ties
\* in input order: scores are non-increasing, chunks of equal score keep their
\* input order, and no chunk is used while a chunk ranked ahead of it is left
\* out.
C4_UsedIsRankedPrefix ==
    (PromptDone /\ retrieved # <<>>) =>
        /\ UsedSet \subseteq RetrievedSet
        /\ Cardinality(UsedSet) = Len(Used)
        /\ \A i, j \in 1..Len(Used) :
              i < j => /\ Used[i].score >= Used[j].score
                       /\ Used[i].score = Used[j].score =>
                              Used[i].chunk_id < Used[j].chunk_id
        /\ \A c \in LeftOut : \A u \in UsedSet : ~RanksBefore(c, u)

\* an input that is not in rank order, with a tie among the chunks used and a
\* chunk left out
C4_Witness ==
    /\ PromptDone
    /\ Len(retrieved) = 3
    /\ retrieved[1].score < retrieved[2].score
    /\ Len(Used) = 2
    /\ Used[1].score = Used[2].score
    /\ LeftOut # {}

RagCall == PromptDone /\ prompt_result.fn = "build_rag_prompt"
RagSystem == IF system_prompt = <<>> THEN RAG_SYSTEM_PROMPT ELSE system_prompt
RagBudget == max_total_tokens - safety_margin
RagReserve ==
    EstimateTokens(RagSystem) + EstimateTokens(<<"Question:", " ">>)
        + EstimateTokens(question) + 50

RECURSIVE UsedCost(_)
\* the estimated tokens of the entries of the first n used chunks
UsedCost(n) ==
    IF n = 0 THEN 0
    ELSE UsedCost(n - 1) + EstimateTokens(RagEntry(n, Used[n]))

FirstLeftOut ==
    CHOOSE c \in LeftOut : \A d \in LeftOut \ {c} : RanksBefore(c, d)

\* the entry of the first chunk left out does not fit behind the used ones,
\* and the used chunks are the chunks ranked ahead of it
PackedToTheBudget ==
    LeftOut # {} =>
        /\ RagReserve + UsedCost(Len(Used))
              + EstimateTokens(RagEntry(Len(Used) + 1, FirstLeftOut)) > RagBudget
        /\ \A u \in UsedSet : RanksBefore(u, FirstLeftOut)

Searched == last_op.op = "search"
SearchedIndex == faiss[last_op.inst].index

\* C6: search(query_vector, k) returns exactly min(k, n) (score, position)
\* pairs when the index holds n vectors, and on an empty index the empty
\* result ([], []) without raising, for every k.
C6_SearchCount ==
    Searched =>
        /\ last_op.status = "ok"
        /\ Len(last_op.scores) = Len(last_op.indices)
        /\ Len(last_op.indices) = Min(last_op.k, Len(SearchedIndex.vecs))
        /\ Len(SearchedIndex.vecs) = 0 =>
              (last_op.scores = <<>> /\ last_op.indices = <<>>)

\* a search asking for more results than the index holds vectors
C6_Witness ==
    /\ Searched
    /\ Len(SearchedIndex.vecs) = 2
    /\ last_op.k = 3
    /\ Len(last_op.indices) = 2

\* C7 as stated: the results come in descending order of inner product with
\* the query, and the score returned with a position is the inner product of
\* the query with the vector stored there.
C7_AsStated ==
    Searched =>
        /\ \A j \in 1..(Len(last_op.scores) - 1) :
              last_op.scores[j] >= last_op.scores[j + 1]
        /\ \A j \in 1..Len(last_op.indices) :
              last_op.indices[j] >= 0 =>
                  last_op.scores[j] =
                      Dot(last_op.query, VecAt(SearchedIndex, last_op.indices[j]))

C9_AsStated ==
    last_op.op = "restart" =>
        \A i \in Names :
            /\ last_op.before[i].persisted =>
                  /\ Len(faiss[i].index.vecs) = last_op.before[i].count
                  /\ faiss[i].metadata.document_ids = last_op.before[i].ids
            /\ (disk.index_file.state # "ok" /\ disk.metadata_file.state # "ok") =>
                  /\ Len(faiss[i].index.vecs) = 0
                  /\ faiss[i].metadata.document_ids = {}


\* C10 (as stated) - ingestion, search and chat operate on one index: when an
\* endpoint has searched while the index process_document upserts into holds
\* vectors, the index the endpoint searched holds vectors too.
C10_AsStated ==
    (/\ last_op.op \in {"search_chunks", "chat"}
     /\ Len(faiss["ingestion"].index.vecs) > 0)
        => Len(faiss[last_op.inst].index.vecs) > 0


\* ---------------------------------------------------------------- C11
SearchedChunks == last_op.op \in {"search_chunks", "chat"}
\* the pairs of the index's answer that have a chunk record: position >= 0 and
\* a row at that offset
Resolvable(j) == last_op.indices[j] >= 0 /\ last_op.indices[j] < Len(db.chunks)
Kept == SelectSeq([j \in 1..Len(last_op.indices) |-> j], Resolvable)

\* C11: search_chunks returns the resolved chunks in the order of the (score,
\* position) pairs returned by the index; a pair whose position is negative or
\* has no chunk record is skipped; every returned chunk is the record at its
\* pair's position and carries its pair's score; the result is empty when the
\* index is empty or no position resolves.
C11_ResolvedInOrder ==
    SearchedChunks =>
        /\ last_op.status = "ok"
        /\ Len(last_op.hits) = Len(Kept)
        /\ \A j \in 1..Len(Kept) : last_op.hits[j].score = last_op.scores[Kept[j]]
        /\ \E table \in TableOrders(db.chunks) :
              \A j \in 1..Len(Kept) :
                  last_op.hits[j].chunk_id = table[last_op.indices[Kept[j]] + 1].id
        /\ (Len(SearchedIndex.vecs) = 0 \/ Kept = <<>>) => last_op.hits = <<>>

\* the best pair has no chunk record and is skipped; the chunk of the next pair
\* is returned first, with the score of its own pair
C11_Witness ==
    /\ SearchedChunks
    /\ Len(last_op.indices) >= 2
    /\ ~Resolvable(1)
    /\ Resolvable(2)
    /\ last_op.scores[1] # last_op.scores[2]
    /\ Len(last_op.hits) >= 1
    /\ last_op.hits[1].score = last_op.scores[2]


\* ---------------------------------------------------------------- C12
\* C12 as stated: after any ingestions and deletions, every position held by
\* an index resolves, by the lookup of search_chunks on the chunks table as
\* stored, to exactly one chunk record, and that record is the one whose
\* embedding was upserted at the position.
C12_AsStated ==
    \A i \in Names : \A p \in Positions(faiss[i].index) :
        LET hits == ResolveHits(<<0>>, <<p>>, db.chunks)
        IN /\ Len(hits) = 1
           /\ \E j \in 1..Len(db.chunks) :
                 /\ db.chunks[j].id = hits[1].chunk_id
                 /\ db.chunks[j].embedding_vector = VecAt(faiss[i].index, p)


\* ---------------------------------------------------------------- C13
\* C13 as stated: a search observes each upsert entirely or not at all, also
\* when the upsert fails part-way.  The state an upsert of m >= 1 vectors
\* leaves, which is what the next search runs on, has either none of its
\* vectors, or all of them at positions start_idx .. start_idx+m-1 together
\* with the metadata updated (total_vectors, document_ids).
C13_AsStated ==
    (last_op.op = "upsert" /\ last_op.vectors # <<>>) =>
        LET self == faiss[last_op.inst]
        IN \/ Len(self.index.vecs) = last_op.start_idx
           \/ /\ self.index.vecs =
                    SubSeq(self.index.vecs, 1, last_op.start_idx) \o last_op.vectors
              /\ self.metadata.total_vectors = Len(self.index.vecs)
              /\ last_op.document_id \in self.metadata.document_ids


\* ---------------------------------------------------------------- C14
\* the committed Chunk rows of a document
RowsOf(document_id) ==
    SelectSeq(db.chunks, LAMBDA row : row.document_id = document_id)

\* C14 as stated: when process_document has ended with the document "failed",
\* the index it upserts into holds no vectors of the document (it holds what
\* it held before the call); when it has ended with "indexed", the number of
\* vectors added equals the number of chunk records committed for it.
C14_AsStated ==
    last_op.op = "process_document" =>
        LET added == Len(faiss["ingestion"].index.vecs) - last_op.start_idx
        IN /\ db.documents[last_op.document_id] = "failed" => added = 0
           /\ db.documents[last_op.document_id] = "indexed" =>
                 added = Len(RowsOf(last_op.document_id))


\* ---------------------------------------------------------------- C15
Generation == gen_result.status = "returned"
Events == gen_result.events
Calls == SelectSeq(Events, LAMBDA e : e.kind = "call")

\* C15: generate_from_prompt calls the backend at most max_retries times,
\* returns the result of the first successful call and makes no call after
\* it, sleeps after a failed call exactly when another call follows (so not
\* after the last one), and when all max_retries calls failed returns the
\* result with answer "" and the error marker; it never raises.
C15_Retry ==
    Generation =>
        /\ Len(Calls) <= max_retries
        /\ \A j \in 1..Len(Calls) : Calls[j].outcome = backend[j]
        /\ \A j \in 1..(Len(Calls) - 1) : Calls[j].outcome = "raise"
        /\ \A j \in 1..Len(Events) :
              /\ Events[j].kind = "sleep" =>
                    /\ j > 1 /\ j < Len(Events)
                    /\ Events[j - 1].kind = "call" /\ Events[j - 1].outcome = "raise"
                    /\ Events[j + 1].kind = "call"
              /\ (Events[j].kind = "call" /\ j < Len(Events)) =>
                    Events[j + 1].kind = "sleep"
        /\ IF Calls # <<>> /\ Calls[Len(Calls)].outcome # "raise"
           THEN gen_result.result = Generated(Calls[Len(Calls)].outcome)
           ELSE /\ Len(Calls) = max_retries
                /\ gen_result.result.answer = <<>>
                /\ gen_result.result.raw = "error"
                /\ gen_result.result.error

\* two failed calls, each followed by a wait, then a successful call with
\* one attempt left unused
C15_Witness ==
    /\ Generation
    /\ max_retries = 3
    /\ Len(Calls) = 2
    /\ Len(Events) = 3
    /\ Events[2].kind = "sleep"
    /\ gen_result.result.answer # <<>>


\* ---------------------------------------------------------------- C16
\* C16 as stated: with stride = chunk_size - chunk_overlap zero or negative,
\* construction followed by chunk_text never completes normally with a chunk
\* list, whatever the text.
C16_AsStated ==
    (ChunkDone /\ chunker.stride <= 0) => chunk_result.status # "ok"


\* ---------------------------------------------------------------- C17
PageWordCounts == [p \in 1..Len(page_texts) |-> Len(Split(page_texts[p]))]
\* the 1-based page holding the word with 0-based index w, when the pages'
\* word counts add up to the document's
PageOfWord(w) ==
    CHOOSE p \in 1..Len(page_texts) :
        /\ SumLens(SubSeq(PageWordCounts, 1, p - 1)) <= w
        /\ w < SumLens(SubSeq(PageWordCounts, 1, p))

\* C17 as stated: with page_texts supplied and the per-page word counts adding
\* up to the document's word count, every chunk has page_start = the page of
\* its first word and page_end = the page of its last word (index
\* end_word - 1), so 1 <= page_start <= page_end <= number of pages; with
\* page_texts absent or empty both are 1.
C17_AsStated ==
    (ChunkDone /\ chunk_result.status = "ok") =>
        \A j \in 1..Len(Chunks) :
            IF page_texts = <<>>
            THEN Chunks[j].page_start = 1 /\ Chunks[j].page_end = 1
            ELSE SumLens(PageWordCounts) = NumWords =>
                    /\ Chunks[j].page_start = PageOfWord(Chunks[j].start_word)
                    /\ Chunks[j].page_end = PageOfWord(Chunks[j].end_word - 1)
                    /\ 1 <= Chunks[j].page_start
                    /\ Chunks[j].page_start <= Chunks[j].page_end
                    /\ Chunks[j].page_end <= Len(page_texts)


\* ---------------------------------------------------------------- C18
PromptText == prompt_result.prompt_text
\* the system text of the call: the argument, or the function's default
PromptSystem ==
    IF system_prompt # <<>> THEN system_prompt
    ELSE IF prompt_result.fn = "build_rag_prompt" THEN RAG_SYSTEM_PROMPT
    ELSE DEFAULT_SYSTEM
Header == PromptSystem \o <<"\n", "\n", "Context:">>
QuestionPart == <<"\n", "Question:", " ">> \o question \o <<"\n", "Answer:">>
\* what the prompt holds between the header and the question part
ContextSection ==
    SubSeq(PromptText, Len(Header) + 1, Len(PromptText) - Len(QuestionPart))

RECURSIVE RenderedFrom(_, _, _)
\* the entries numbered j, j+1, ... of the chunks used[j], used[j+1], ...,
\* each on a new line
RenderedFrom(fn, used, j) ==
    IF j > Len(used) THEN <<>>
    ELSE <<"\n">> \o Entry(fn, j, used[j]) \o RenderedFrom(fn, used, j + 1)

\* C18: used_chunks is exactly the list of chunks rendered into the context
\* section, in rendering order: the context section consists of the entries
\* numbered [1], [2], ... of used_chunks[1], used_chunks[2], ... and of
\* nothing else (with no retrieved chunks: of the placeholder, and
\* used_chunks is empty).
C18_UsedIsRendered ==
    PromptDone =>
        /\ SubSeq(PromptText, 1, Len(Header)) = Header
        /\ IF retrieved = <<>>
           THEN Used = <<>> /\ ContextSection = <<"\n", "(none)", "\n">>
           ELSE ContextSection = RenderedFrom(prompt_result.fn, Used, 1) \o <<"\n">>

\* two chunks rendered, in an order other than the input's, and one left out
C18_Witness ==
    /\ PromptDone
    /\ Len(retrieved) = 3
    /\ Len(Used) = 2
    /\ Used[1] = retrieved[2]
    /\ Used[2] = retrieved[1]


\* ---------------------------------------------------------------- C19
\* C19: with no retrieved chunks build_rag_prompt and build_prompt return
\* used_chunks == [] and the prompt
\* system text + "\n\nContext:\n(none)\n\nQuestion: " + question + "\nAnswer:",
\* for every question and every system text.
C19_EmptyRetrieval ==
    (prompt_result.status # "pending" /\ retrieved = <<>>) =>
        /\ prompt_result.status = "ok"
        /\ Used = <<>>
        /\ PromptText =
              PromptSystem
                  \o <<"\n", "\n", "Context:", "\n", "(none)", "\n", "\n",
                       "Question:", " ">>
                  \o question \o <<"\n", "Answer:">>

\* a call without chunks, with a system text of the caller and a question of
\* several lines
C19_Witness ==
    /\ PromptDone
    /\ retrieved = <<>>
    /\ system_prompt = <<"S", "\n", "T">>
    /\ question = <<"q", "\n">>
    /\ prompt_result.fn = "build_prompt"


\* ---------------------------------------------------------------- C20
\* the evidence entries as the shape lists them: each on its own lines, a
\* citation line followed by the chunk text
RECURSIVE StatedEntries(_, _)
StatedEntries(used, j) ==
    IF j > Len(used) THEN <<>>
    ELSE LET e == RagEntry(j, used[j])
         IN <<"\n">> \o SubSeq(e, 1, Len(e) - 1) \o StatedEntries(used, j + 1)

\* C20: for every input the prompt of build_rag_prompt is the system text, one
\* blank line, the line "Context:", the evidence entries (a citation line and
\* the chunk text each), one blank line, "Question: " + question, a newline
\* and "Answer:" as its last characters.  The "(none)" line of a call without
\* chunks is let through as the evidence of that call.
C20_AsStated ==
    (PromptDone /\ prompt_result.fn = "build_rag_prompt") =>
        PromptText =
            Header
                \o (IF retrieved = <<>> THEN <<"\n", "(none)">>
                                        ELSE StatedEntries(Used, 1))
                \o <<"\n", "\n", "Question:", " ">>
                \o question \o <<"\n", "Answer:">>

\* ---------------------------------------------------------------- C21
\* s holds t as a run of consecutive elements
Contains(s, t) ==
    \E i \in 1..(Len(s) - Len(t) + 1) : SubSeq(s, i, i + Len(t) - 1) = t

\* the page range as the entry is said to show it
StatedPages(chunk) ==
    IF chunk.page_start = chunk.page_end
    THEN "p." \o ToString(chunk.page_start)
    ELSE "p." \o ToString(chunk.page_start) \o EnDash \o ToString(chunk.page_end)

StatedCitation(idx, chunk) ==
    <<"-", " ", "[" \o ToString(idx) \o "]", " ", "(">>
        \o chunk.source_filename
        \o <<" ", StatedPages(chunk) \o ",",
             " ", "score=" \o FormatScore(chunk.score) \o ")", "\n">>

\* C21: every evidence entry of build_rag_prompt shows its pages as p.X when
\* page_start = page_end = X and as p.X<EN DASH>Y when page_start = X < page_end = Y,
\* next to the source filename and the score with three decimals.
C21_AsStated ==
    (PromptDone /\ prompt_result.fn = "build_rag_prompt") =>
        \A j \in 1..Len(Used) :
            Used[j].page_start <= Used[j].page_end =>
                Contains(PromptText, StatedCitation(j, Used[j]))

\* ---------------------------------------------------------------- C22
\* C22: whenever build_rag_prompt uses no evidence, also when retrieved chunks
\* were given and not even the first in rank fits the budget, the context
\* section of the prompt holds the placeholder (none).
C22_AsStated ==
    (PromptDone /\ prompt_result.fn = "build_rag_prompt" /\ Used = <<>>) =>
        Contains(ContextSection, <<"(none)">>)

\* ---------------------------------------------------------- C25, C26, C27
EmbedDone == embed_result.status \notin {"idle", "pending"}
EmbedEvents == embed_result.events
\* the calls embed_texts makes on the wrapped provider, and those that reach
\* SentenceTransformer.encode
ProviderCalls == SelectSeq(EmbedEvents, LAMBDA e : e.kind = "embed_texts")
EncodeCalls == SelectSeq(EmbedEvents, LAMBDA e : e.kind = "encode")
Delays == SelectSeq(EmbedEvents, LAMBDA e : e.kind = "sleep")
\* the batches a list of Len(texts) texts falls into
NumBatches ==
    IF IsBatched(embeddings.kind) THEN CeilDiv(Len(texts), embeddings.batch_size) ELSE 1
Slice(k) ==
    SubSeq(texts, (k - 1) * embeddings.batch_size + 1,
           Min(k * embeddings.batch_size, Len(texts)))
\* the batches on which the backend fails: each one for WatsonxEmbeddings,
\* those where encode raises for SentenceTransformersEmbeddings
FailingBatches ==
    { c \in 1..NumBatches :
        \/ Wrapped(embeddings.kind) = "WatsonxEmbeddings"
        \/ encode_outcomes[c] = "raise" }
FirstFailing == CHOOSE c \in FailingBatches : \A d \in FailingBatches : c <= d

C26_Batching ==
    (/\ EmbedDone
     /\ embeddings.kind = "BatchedEmbeddings(SentenceTransformersEmbeddings)"
     /\ embeddings.batch_size >= 1
     /\ texts # <<>>
     /\ FailingBatches = {}) =>
        /\ embed_result.status = "returned"
        /\ Len(ProviderCalls) = NumBatches
        /\ \A k \in 1..NumBatches : ProviderCalls[k].texts = Slice(k)
        /\ embed_result.value = [i \in 1..Len(texts) |-> Normalize(Encode(texts[i]))]
        /\ Len(Delays) = NumBatches - 1
        /\ Len(EmbedEvents) = 3 * NumBatches - 1
        /\ \A k \in 1..NumBatches :
              /\ EmbedEvents[3 * k - 2].kind = "embed_texts"
              /\ EmbedEvents[3 * k - 1].kind = "encode"
              /\ k < NumBatches => EmbedEvents[3 * k].kind = "sleep"

\* four texts in batches of three: a full batch, a sleep, a batch of one
C26_Witness ==
    /\ EmbedDone
    /\ embeddings = [kind |-> "BatchedEmbeddings(SentenceTransformersEmbeddings)",
                     batch_size |-> 3]
    /\ texts = <<"a", "b", "b", "a">>
    /\ embed_result.status = "returned"
    /\ Len(Delays) = 1

\* C27: embed_texts([]) returns the empty list, without calling the backend
\* and without raising, for SentenceTransformersEmbeddings, WatsonxEmbeddings
\* and BatchedEmbeddings over either.
C27_EmptyInput ==
    (EmbedDone /\ texts = <<>>) =>
        /\ embed_result.status = "returned"
        /\ embed_result.value = <<>>
        /\ EmbedEvents = <<>>

C27_Witness ==
    /\ EmbedDone
    /\ texts = <<>>
    /\ embeddings.kind = "BatchedEmbeddings(WatsonxEmbeddings)"
    /\ embed_result.status = "returned"

\* ---------------------------------------------------------------- C28
\* C28: for every Chunker with stride >= 1 (0 <= chunk_overlap < chunk_size)
\* and every text, validate_overlap(chunk_text(text)) returns True.
C28_AsStated ==
    (/\ chunk_result.status = "validated"
     /\ 0 <= chunker.chunk_overlap
     /\ chunker.chunk_overlap < chunker.chunk_size) =>
        chunk_result.valid

\* ---------------------------------------------------------------- C29
\* C29: in every reachable state of a FAISSIndex (after construction on a
\* fresh or used index_path and after any upsert, clear and load_index calls,
\* failed ones included) metadata.total_vectors equals the number of vectors of
\* the in-memory index, and get_stats().document_count counts the owners
\* upserted with at least one vector: the owner of such an upsert is among
\* the ids counted.
C29_AsStated ==
    \A i \in Names :
        /\ faiss[i].metadata.total_vectors = Len(faiss[i].index.vecs)
        /\ (last_op.op = "upsert" /\ last_op.inst = i /\ last_op.vectors # <<>>) =>
              /\ last_op.document_id \in faiss[i].metadata.document_ids
              /\ GetStats(faiss[i]).document_count >= 1

\* ---------------------------------------------------------------- C30
\* C30: once metadata saved by one FAISSIndex has been loaded from disk by a
\* new or reloaded FAISSIndex on the same path, upsert of a non-empty vector
\* list succeeds: the vectors are added, the owner id is in document_ids and
\* both files are persisted, without raising.
C30_AsStated ==
    (/\ last_op.op = "upsert"
     /\ last_op.vectors # <<>>
     /\ faiss[last_op.inst].metadata.ids_type = "list") =>
        LET self == faiss[last_op.inst]
        IN /\ last_op.status = "ok"
           /\ Len(self.index.vecs) = last_op.start_idx + Len(last_op.vectors)
           /\ last_op.document_id \in self.metadata.document_ids
           /\ Snapshot(self, disk).persisted

\* ---------------------------------------------------------------- C23
\* the request was answered: the assistant message is committed
ChatAnswered == chat_result.status \in {"200", "done"}
\* the committed Citation rows of a message, in the order they were added
CitationsFor(message_id) ==
    SelectSeq(citations, LAMBDA c : c.message_id = message_id)
SameChunk(c, chunk) ==
    /\ c.document_id = chunk.document_id
    /\ c.chunk_id = chunk.chunk_id
    /\ c.score = chunk.score

\* C23: in chat and in chat_stream the citations persisted and returned for
\* an assistant message are one per element of used_chunks of build_rag_prompt,
\* in the same order, each with that chunk's document id, chunk id and score;
\* an answer built with no used chunks has no citations.
C23_CitationsAreUsedChunks ==
    ChatAnswered =>
        LET used == chat_result.used_chunks
            stored == CitationsFor(chat_result.message_id)
            returned == chat_result.citations
        IN /\ \E m \in 1..Len(messages) :
                 /\ messages[m].id = chat_result.message_id
                 /\ messages[m].role = "assistant"
           /\ Len(stored) = Len(used)
           /\ Len(returned) = Len(used)
           /\ \A j \in 1..Len(used) :
                 SameChunk(stored[j], used[j]) /\ SameChunk(returned[j], used[j])
           /\ chat_result.path = "chat_stream" =>
                 LET last == chat_result.events[Len(chat_result.events)]
                 IN last.event = "done" /\ last.citations = returned

\* a streamed answer for which two chunks were retrieved and only the one that
\* fits the prompt is used and cited
C23_Witness ==
    /\ ChatAnswered
    /\ chat_result.path = "chat_stream"
    /\ Len(chat_result.retrieved) = 2
    /\ Len(chat_result.used_chunks) = 1
    /\ Len(citations) = 1
    /\ citations[1].chunk_id = chat_result.retrieved[1]

\* ---------------------------------------------------------------- C24
\* C24: when the backend fails during generate_stream / chat_stream, the
\* failure is not delivered as a token event and not stored as the text of an
\* assistant message with citations; the stream ends with an error event, not
\* a done event.
C24_AsStated ==
    (chat_result.path = "chat_stream" /\ chat_result.backend_failed) =>
        /\ \A j \in 1..Len(chat_result.events) :
              chat_result.events[j].event = "token" =>
                  chat_result.events[j].delta # ErrorToken
        /\ chat_result.added.messages = <<>>
        /\ chat_result.events # <<>>
        /\ chat_result.events[Len(chat_result.events)].event = "error"

====
